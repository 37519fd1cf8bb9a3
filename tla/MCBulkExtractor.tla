--------------------------- MODULE MCBulkExtractor ---------------------------
(* Instances of BulkExtractor for TLC. *)
EXTENDS BulkExtractor

Scan == [error |-> "none", path |-> FALSE, zap |-> FALSE, recurse |-> FALSE,
         notification |-> TRUE, input |-> "image"]

\* A user who makes each of the mistakes the program knows of.
Clumsy ==
  {[Scan EXCEPT !.error = e] :
     e \in {"none", "debug_help", "conflict", "set", "version", "help", "info_scanners",
            "image_name", "outdir", "scanner", "find", "sample"}}
  \cup {[Scan EXCEPT !.input = i, !.recurse = r] :
          i \in {"directory", "directory_of_images", "missing", "unsupported"}, r \in BOOLEAN}
  \cup {[Scan EXCEPT !.path = TRUE, !.input = i] : i \in {"image", "missing"}}
  \cup {[Scan EXCEPT !.notification = FALSE], [Scan EXCEPT !.zap = TRUE],
        [Scan EXCEPT !.zap = TRUE, !.error = "scanner"]}

OneCommand == {Scan}
=============================================================================
