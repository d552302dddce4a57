---------------------------- MODULE MCMemoryCache ----------------------------
(***************************************************************************)
(* A small instance of MemoryCache: keys of different sizes, one of them    *)
(* larger than the whole cache.                                             *)
(***************************************************************************)
EXTENDS MemoryCache

MCSizeOf == [k \in {"tiny", "small", "large", "huge"} |->
                CASE k = "tiny" -> 1 [] k = "small" -> 2 [] k = "large" -> 3 [] OTHER -> 5]
=============================================================================
