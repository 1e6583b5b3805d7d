----------------------------- MODULE MCPipeline -----------------------------
(* Two instances that share a run, gain one and lose one between drafts. *)
EXTENDS Pipeline

CONSTANTS i1, i2, a, b

MCDrafts == {(i1 :> {a}), (i1 :> {b, a}) @@ (i2 :> {b}), (i1 :> {b}) @@ (i2 :> {})}
=============================================================================
