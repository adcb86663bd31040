---------------------------- MODULE MCPropertyList ----------------------------
(* Instances of PropertyList for TLC. *)
EXTENDS PropertyList, TLC

MCText   == {"", "0", "100", "junk", "huge"}
MCLength == "" :> 0 @@ "0" :> 1 @@ "100" :> 3 @@ "junk" :> 4 @@ "huge" :> 4

(* strtol() makes 0 of a text that is no number. *)
MCParse == "" :> "n0" @@ "0" :> "n0" @@ "100" :> "n100"
           @@ "junk" :> "n0" @@ "huge" :> NULL
MCDecimal == "n0" :> "0" @@ "n100" :> "100"

MCTypes == "str" :> "STRING" @@ "get" :> "LONG_PTR" @@ "cb" :> "INT"
           @@ "setonly" :> "INT_VAL" @@ "getonly" :> "INT_VAL"
           @@ "conval" :> "INT_VAL" @@ "conint" :> "INT" @@ "dir" :> "DIR"
MCType  == [e \in Ent |-> MCTypes[e]]
MCConst == [e \in Ent |-> IF e \in {"conval", "conint"} THEN "100" ELSE NULL]
MCOps   == [e \in Ent |-> CASE e = "str"                  -> {"getString", "setString"}
                             [] e = "cb"                  -> {"getInt", "setInt"}
                             [] e \in {"get", "getonly"}  -> {"getInt"}
                             [] e = "setonly"             -> {"setInt"}
                             [] OTHER                     -> {}]
==============================================================================
