----------------------------- MODULE MCCommands -----------------------------
(* Instance of CommandTable for TLC: all files of one or two branches with   *)
(* one or two elements each, where an element may have the name of another,  *)
(* of a branch, or of a fixed command ("elements").                          *)
EXTENDS CommandTable

Elements == [name : {"e", "elements"}, optional : BOOLEAN]
Branches == [name : {"e", "side"}, optional : BOOLEAN,
             elements : {<<e>> : e \in Elements} \cup {<<d, e>> : d, e \in Elements}]

MCName  == {"e", "elements", "side"}
MCFiles == {<<a>> : a \in Branches} \cup {<<a, b>> : a, b \in Branches}
=============================================================================
