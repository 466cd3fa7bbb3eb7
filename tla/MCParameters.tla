---------------------------- MODULE MCParameters -----------------------------
(* Parameters with infos that are complete, broken in a section, or empty. *)
EXTENDS Parameters

Face(id, text) == [id |-> id, complete |-> TRUE, text |-> text]

Info(cam, settings, ai, faces) ==
  [cam |-> cam, settings |-> settings, ai |-> ai, system |-> "good", features |-> faces]

\* Two bytes, as 2048 is, end in a quartet with one pad sign.
MCInfos ==
  {Info("good", "good", "good",
        {Face("f1", <<1, 2, Space, 3, Pad, Space>>), Face("f2", <<1, 2, 3>>),
         Face("f3", <<1, 2, 3, Pad, 4>>), Face("f4", <<1, Other, 2, 3, Pad>>)}),
   Info("empty", "good", "good",
        {Face("f2", <<1, 2, 3, Pad, Pad>>), Face("f1", <<1, 2, Pad, Space, Pad>>),
         Face("f3", <<1, 2, 3, 4>>), Face("f4", <<1, 2, Pad>>),
         [Face("f5", <<1, 2, 3, Pad>>) EXCEPT !.complete = FALSE]}),
   Info("good", "bad", "good", {}),
   Info("good", "good", "bad", {})}

Response(n) ==
  [n |-> n, complete |-> TRUE, alertsIn |-> "hamiSettings", features |-> "object",
   sameCamera |-> TRUE, schedules |-> TRUE, fence |-> 0]

MCResponses ==
  {Response(-1), Response(3), Response(101), [Response(1) EXCEPT !.features = "array"],
   [Response(1) EXCEPT !.fence = -1], [Response(1) EXCEPT !.alertsIn = "hamiAiSettings"]}

=============================================================================
