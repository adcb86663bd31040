----------------------------- MODULE MCPlainFiles -----------------------------
(* Instances of PlainFiles for TLC. *)
EXTENDS PlainFiles, TLC

MCKind  == "str" :> "string" @@ "host" :> "host" @@ "buf" :> "buffer"
           @@ "heap" :> "buffer" @@ "none" :> "none"
MCStart == "str" :> <<"a", "b", "b">> @@ "host" :> <<"a">> @@ "buf" :> <<"b">>
           @@ "heap" :> <<>> @@ "none" :> <<>>
MCLimit == "str" :> 0 @@ "host" :> 0 @@ "buf" :> 2 @@ "heap" :> 0 @@ "none" :> 0

MyKind  == [f \in File |-> MCKind[f]]
MyStart == [f \in File |-> MCStart[f]]
MyLimit == [f \in File |-> MCLimit[f]]

MyMode(acc, app, other) == [acc |-> acc, append |-> app, other |-> other]
MCMode == {MyMode("read", FALSE, FALSE), MyMode("rdwr", TRUE, FALSE),
           MyMode("write", FALSE, FALSE), MyMode("exec", FALSE, FALSE),
           MyMode("read", FALSE, TRUE)}
MCPiece == {<<"a", "b">>}

Symmetry == Permutations(Client)
===============================================================================
