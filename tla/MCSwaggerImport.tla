--------------------------- MODULE MCSwaggerImport ---------------------------
(* Small instances of SwaggerImport. *)
EXTENDS SwaggerImport

CONSTANTS a, b

\* Two operations, and two operations whose paths are the same when cleaned.
TwoDocuments == {<<a, b>>, <<a, a, b>>}
=============================================================================
