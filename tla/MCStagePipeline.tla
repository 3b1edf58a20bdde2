--------------------------- MODULE MCStagePipeline ---------------------------
(* Manifests for TLC: each is small, and together they hold every method.  *)
EXTENDS StagePipeline

Cell(algo, env, seed, stage) == [algo |-> algo, env |-> env, seed |-> seed, stage |-> stage]
Cheetah(algo, seed, stage) == Cell(algo, "halfcheetah", seed, stage)

\* EDA's three stages; QGPO with a second seed; QGPO beside the smoke
\* test of its first stage;
\* CORL cells, one of them dropped, beside a DQL cell the launcher refuses and a
\* stage it does not know; the LDCQ smoke tests.
MCPlans ==
  {[rows |-> {Cheetah("eda", 0, s) : s \in StagesOf("eda")}, smokes |-> {}],
   [rows |-> {Cheetah("qgpo", 0, "behavior"), Cheetah("qgpo", 1, "behavior"),
              Cheetah("qgpo", 1, "critic")}, smokes |-> {}],
   [rows |-> {Cheetah("qgpo", 0, s) : s \in StagesOf("qgpo")},
    smokes |-> {Cheetah("qgpo", 0, "behavior")}],
   [rows |-> {Cheetah("iql", 0, "full"), Cheetah("td3bc", 0, "full"),
              Cell("dql", "humanoid", 0, "full"), Cheetah("eda", 0, "full")},
    smokes |-> {Cheetah("iql", 0, "full")}],
   [rows |-> {}, smokes |-> {Cheetah("ldcq", 0, s) : s \in {"skills", "collect", "q_net"}}]}
MCDropped == {"td3bc"}
=============================================================================
