--------------------------- MODULE MCUploadQueue ---------------------------
(* Small instances of UploadQueue. *)
EXTENDS UploadQueue

CONSTANTS a, b

OneFile == <<a>>
TwoRows == <<a, b>>
Files == [i \in Items |-> "file"]
PkgThenInstall == [i \in Items |-> IF i = a THEN "pkg" ELSE "install"]
ImageThenFile == [i \in Items |-> IF i = a THEN "image" ELSE "file"]
UpdateFirst == [i \in Items |-> IF i = a THEN 1 ELSE 0]
NoTiers == [i \in Items |-> 0]
=============================================================================
