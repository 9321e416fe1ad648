--------------------------- MODULE MCAttachments ---------------------------
EXTENDS Attachments, TLC

\* Requests, downloads and keys are interchangeable.
Symmetry == Permutations(Keys) \cup Permutations(Requests)
============================================================================
