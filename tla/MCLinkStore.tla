---------------------------- MODULE MCLinkStore ----------------------------
EXTENDS LinkStore, TLC

Symmetry == Permutations(Clients) \cup Permutations(Codes)

\* A rename alone, and an edit that moves target and deadline; metadata workers
\* write the title.
RenameOrRedo == {<<>>, "url" :> 1 @@ "expires" :> 0}

\* Edits of one field each.
OneField == {"url" :> 1, "expires" :> 0}
=============================================================================
