------------------------- MODULE MCNamingTemplates -------------------------
(* A small instance of NamingTemplates: files with every way to extend and *)
(* every way to give, inherit or clear a variable that a name uses, and a  *)
(* file with a name that refers to itself.                                 *)
EXTENDS NamingTemplates, TLC

CONSTANTS a, b, c, d, home

AllVariables == {home}

FilesOf(extends, variables, names) ==
    [id : Ids, template : [extends : extends, variables : variables, device_name : names,
                           entity_name : {Absent}, object_id : {Absent}]]

AllFiles ==
    FilesOf(Ids \cup {Absent}, {Absent, Null, {home}}, {Absent, {home}})
        \cup FilesOf({Absent}, {Absent}, {{DeviceName}})

Symmetry == Permutations(Ids)
=============================================================================
