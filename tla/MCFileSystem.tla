----------------------------- MODULE MCFileSystem -----------------------------
(* A small disk with one file on it, one descriptor, and paths through the   *)
(* root, one directory and the current directory.  The root directory does   *)
(* not end with a block, and mkfs marks its blocks in one bitmap block.       *)
EXTENDS FileSystem

U(n) == <<n, "">>
MCImages == { << [name |-> "a", data |-> <<U(1)>>] >> }
PA == <<"/", ".", "/", "a">>
PD == <<"/", ".", "/", "d">>
PDB == <<"/", "d", "/", "/", "b">>
PB == <<"b">>
MCOpens == { <<PA, <<"WRONLY", {"TRUNC"}>>>>, <<PB, <<"RDWR", {"CREATE"}>>>>,
             <<PD, <<"RDONLY", {}>>>> }
MCLinks == { <<PA, PDB>> }
MCMknods == { <<PB, 2>> }
MCUnlinks == { PA, PD, PDB }
MCMkdirs == { PD, PB, <<"/", "long">> }
MCChdirs == { <<"/", ".">>, PDB, PD, <<"..">> }
MCData == { <<U(2), U(3), U(4)>> }
MCBads == { -1, 1 }
=============================================================================
