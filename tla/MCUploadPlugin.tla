---------------------------- MODULE MCUploadPlugin -----------------------------
(* Model-checking instance of UploadPlugin.                                *)
EXTENDS UploadPlugin, TLC

MCTexts == {EmptyText, Uploading, Failed, Foreign} \cup {Uri(f) : f \in Files \cup {NoFile}}

Symmetry == Permutations(Files)

=============================================================================
