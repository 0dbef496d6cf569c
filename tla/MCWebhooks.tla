----------------------------- MODULE MCWebhooks -----------------------------
(***************************************************************************)
(* Planning for TLC, over the extractions and manifests of MCPlanning.     *)
(***************************************************************************)
EXTENDS Naturals

CONSTANT None

VARIABLES stage, extraction, manifest, focus, profile, draft, pending, consumed, issues, score, verdict

Data == INSTANCE MCPlanning

INSTANCE Planning WITH
  Extractions <- Data!PlanningExtractions, Manifests <- Data!PlanningManifests,
  Focuses <- Data!PlanningFocuses, Profiles <- {"ci", "review"},
  Scores <- {None, 80}, Rounds <- {1, 2},
  Unrooted <- {"p"}, KeyOf <- Data!PlanningKeys, Label <- Data!PlanningLabels,
  Tokens <- Data!PlanningTokens, Statuses <- {"200", "201", "404"}, Successes <- {"200", "201"}
=============================================================================
