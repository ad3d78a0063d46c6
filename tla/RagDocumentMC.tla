---------------------------- MODULE RagDocumentMC ----------------------------
EXTENDS RagDocument, TLC

CONSTANTS u1, u2, u3

Sym == Permutations(Uploads)
=============================================================================
