------------------------------- MODULE MCVfs -------------------------------
(* A root directory with a file and the directory devfs is mounted on,     *)
(* which has a tty, cached from the start, and another device; blocks of   *)
(* three bytes, and a file of twelve.  The two dentries are soon used up.  *)
EXTENDS Vfs, TLC

Tree ==
    ("root" :> [n \in {"..", "dev", "f"} |->
                   CASE n = ".." -> "root" [] n = "dev" -> "dir"
                     [] n = "f" -> "file"])
    @@ ("dir" :> [n \in {".."} |-> "root"])
    @@ ("devroot" :> [n \in {"..", "tty", "null"} |->
                         IF n = ".." THEN "devroot" ELSE n])
    @@ ("file" :> <<>>)
Sizes == "file" :> 12

Names == {".", "..", "dev", "f", "tty", "null"}
PathsUsed == {<<"f">>, <<"..", "dev", "null">>}

Symmetry == Permutations(Process)
=============================================================================
