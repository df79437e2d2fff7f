---------------------------- MODULE MCInvoices ----------------------------
(* Invoices for TLC: invoices and websockets are model values. *)
EXTENDS Invoices, TLC

InvoiceSymmetry == Permutations(Ids)
=============================================================================
