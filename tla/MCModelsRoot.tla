---------------------------- MODULE MCModelsRoot ----------------------------
(* ModelsRoot with two locations, one link, and a setting of each sort.     *)
EXTENDS ModelsRoot

CONSTANTS models, elsewhere, link, d1, d2

Silent ==
  [payload |-> [modelsDir |-> Absent, models_dir |-> Absent], modly |-> Absent,
   legacy |-> Absent, hosted |-> FALSE]

Payload(old, new) ==
  [Silent EXCEPT !.payload = [modelsDir |-> new, models_dir |-> old], !.modly = elsewhere]

MCViews ==
  {Silent, Payload(models, Absent), Payload(link, link), Payload(models, link),
   [Silent EXCEPT !.modly = elsewhere, !.legacy = models, !.hosted = TRUE],
   [Silent EXCEPT !.modly = Malformed],
   [Silent EXCEPT !.legacy = elsewhere],
   [Silent EXCEPT !.legacy = link, !.hosted = TRUE]}

MCStarts ==
  {[view |-> v, api |-> a, beside |-> b, to |-> [l \in Links |-> models], tree |-> t,
    at |-> [p \in Paths |-> IF p = models THEN d1 ELSE d2]] :
     v \in Views, a \in {Absent, models}, b \in {Absent, models},
     t \in {[d \in Dirs |-> Absent], [d \in Dirs |-> IF d = d1 THEN Absent ELSE Alias]}}
=============================================================================
