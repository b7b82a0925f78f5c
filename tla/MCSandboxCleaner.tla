--------------------------- MODULE MCSandboxCleaner ---------------------------
(* A container with a directory of two files in tmp, one top-level file in   *)
(* Library/Caches, a directory of two files in Documents and one file that   *)
(* no target covers.                                                         *)
EXTENDS SandboxCleaner, TLC

CONSTANTS t1, t2, c1, n1, n2, o1, tdir, cfile, ndir, odir

MCFiles == {t1, t2, c1, n1, n2, o1}
MCKids == {tdir, cfile, ndir, odir}
MCArea == t1 :> "tmp" @@ t2 :> "tmp" @@ c1 :> "caches"
          @@ n1 :> "docs" @@ n2 :> "docs" @@ o1 :> "other"
MCKid == t1 :> tdir @@ t2 :> tdir @@ c1 :> cfile
         @@ n1 :> ndir @@ n2 :> ndir @@ o1 :> odir
===============================================================================
