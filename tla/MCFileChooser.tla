--------------------------- MODULE MCFileChooser ---------------------------
(* Model checking of FileChooser.                                            *)
EXTENDS FileChooser

==============================================================================
