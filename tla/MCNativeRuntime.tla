-------------------------- MODULE MCNativeRuntime --------------------------
(* A session that changes directory while its map is built, asks again for *)
(* the same map, or ends meanwhile; two sessions of one directory; a       *)
(* subagent that stops while its parent ends; a compaction around an end.  *)
(* A store call fails where its cast allows it, and half an hour passes    *)
(* between the events of the first three.                                  *)
EXTENDS NativeRuntime

CONSTANTS s1, s2, k1, k2, st1, pr1, pr2, en1, st2, tl1, co1, ss2, sp2, tu1

MCEvents == {st1, pr1, pr2, en1, st2, tl1, co1, ss2, sp2, tu1}
MCTypeOf == [e \in MCEvents |->
    CASE e \in {st1, st2} -> "session.start" [] e \in {pr1, pr2} -> "prompt.submit"
      [] e = en1 -> "session.end" [] e = tl1 -> "tool.after" [] e = co1 -> "context.compact.before"
      [] e = ss2 -> "subagent.start" [] e = sp2 -> "subagent.stop" [] e = tu1 -> "turn.stop"]
MCSessionOf == [e \in MCEvents |-> IF e \in {st2, ss2, sp2} THEN s2 ELSE s1]
MCKeyOf == [e \in MCEvents |-> IF e = pr2 THEN k2 ELSE k1]
MCParentOf == [e \in MCEvents |-> IF e \in {ss2, sp2} THEN s1 ELSE None]
MCStripeOf == [s \in {s1, s2} |-> s]
Cast(set, f, t) == [events |-> set, fails |-> f, time |-> t]
MCCasts == {Cast({st1, pr2}, 1, 2), Cast({st1, pr1}, 1, 2), Cast({st1, en1}, 1, 2),
            Cast({pr1, pr2}, 0, 1), Cast({st1, pr1, en1}, 0, 1), Cast({st1, st2}, 0, 1),
            Cast({sp2, en1}, 1, 1), Cast({ss2, sp2}, 1, 1), Cast({tu1, en1}, 0, 1), Cast({tl1, co1, en1}, 1, 1)}
=============================================================================
