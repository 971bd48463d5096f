------------------------------ MODULE MCBrowse ------------------------------
(* TLC instance of Browse: a document, a subresource the page waits for    *)
(* and a request its scripts make later.                                   *)
EXTENDS Browse

CONSTANTS doc, script, late
=============================================================================
