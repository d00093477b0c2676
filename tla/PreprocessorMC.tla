--------------------------- MODULE PreprocessorMC ---------------------------
(***************************************************************************)
(* A disk for the preprocessor: two `-I` roots; a module Lib in file form  *)
(* and a module Dir in directory form; the entry file doubles as the file  *)
(* of a module App; Twice is offered in both forms, Gone by no root.       *)
(***************************************************************************)
EXTENDS Preprocessor

CONSTANTS main, lib, d1, d2, Lib, Dir, App, Twice, Gone

FirstRootFiles  == [m \in Modules |-> CASE m = App   -> {main}
                                        [] m = Twice -> {lib}
                                        [] OTHER     -> {}]
SecondRootFiles == [m \in Modules |-> IF m = Lib THEN {lib} ELSE {}]
FirstRootDirs   == [m \in Modules |-> IF m \in {Dir, Twice} THEN <<d1, d2>> ELSE <<>>]
SecondRootDirs  == [m \in Modules |-> <<>>]

MCFileForm == <<FirstRootFiles, SecondRootFiles>>
MCDirForm  == <<FirstRootDirs, SecondRootDirs>>
=============================================================================
