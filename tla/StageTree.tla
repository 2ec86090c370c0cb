----------------------------- MODULE StageTree -----------------------------
(***************************************************************************)
(* The stages of an AI job: the list of a request is validated              *)
(* (AiJobService::validateStages), mapped to a configuration                *)
(* (AiStageMapper::toCfg), loaded into a tree (StageRunner::init) and run   *)
(* on every frame (StageRunner::run): stage 0 on the frame, every other on  *)
(* the detections its parent stage has kept.                                *)
(*                                                                          *)
(* A stage of a request is [null, parent, model, transform, conf,           *)
(* inputClasses, classFilter]: parent is NoParent where the request leaves  *)
(* it out, model and transform are "known", "unknown" or "" (left out; a    *)
(* transform left out is the plain crop).                                   *)
(* Indices count from 0 as in the code, so a list is a function on 0 .. n-1.*)
(* Where on the frame a detection lies is geometry and left out, except     *)
(* that stage 0 drops a box that is empty there; so detections of one class *)
(* are told apart only by what is kept of them, and form a set.             *)
(***************************************************************************)
EXTENDS Integers, FiniteSets

CONSTANTS kMaxStages, kMaxDepth, MaxConf

ASSUME StageTreeAssumption ==
    kMaxStages \in Nat \ {0} /\ kMaxDepth \in Nat \ {0} /\ MaxConf \in Nat

NoParent == -2

Size(stages) == Cardinality(DOMAIN stages)

-----------------------------------------------------------------------------
(* What the API accepts. *)
validateStages(stages) ==
    /\ Size(stages) \in 1 .. kMaxStages
    /\ \A i \in DOMAIN stages :
          LET s == stages[i] IN
          /\ ~s.null
          /\ s.model = "known"
          /\ s.transform # "unknown"
          /\ s.conf \in 0 .. MaxConf
          /\ IF i = 0 THEN s.parent < 0
             ELSE s.parent = NoParent \/ s.parent \in 0 .. i - 1

(* The configuration: a stage that is null is left out but counted. *)
toCfg(stages) ==
    LET given == {i \in DOMAIN stages : ~stages[i].null}
        place(k) == CHOOSE i \in given : Cardinality({j \in given : j < i}) = k
        default(i) == IF i = 0 THEN -1 ELSE i - 1
        parent(i) == IF stages[i].parent # NoParent THEN stages[i].parent ELSE default(i)
    IN  [k \in 0 .. Cardinality(given) - 1 |->
            [stages[place(k)] EXCEPT !.parent = parent(place(k))]]

-----------------------------------------------------------------------------
(* The tree.  Parents stand before their children, so depths follow from    *)
(* one pass over the list.                                                  *)
Children(cfg, s) == {i \in DOMAIN cfg \ {0} : cfg[i].parent = s}

depthOf(cfg) ==
    LET depth[i \in DOMAIN cfg] == IF i = 0 THEN 1 ELSE 1 + depth[cfg[i].parent]
    IN  CHOOSE d \in {depth[i] : i \in DOMAIN cfg} : \A i \in DOMAIN cfg : depth[i] <= d

StageLoads(cfg, i) ==
    /\ cfg[i].model = "known"
    /\ i > 0 => cfg[i].parent \in 0 .. i - 1 /\ cfg[i].transform # "unknown"

(* StageRunner::init, the model files being there. *)
init(cfg) ==
    /\ Size(cfg) \in 1 .. kMaxStages
    /\ cfg[0].parent < 0
    /\ \A i \in DOMAIN cfg : StageLoads(cfg, i)
    /\ depthOf(cfg) <= kMaxDepth

-----------------------------------------------------------------------------
(* Running the tree.  sees[i] are the detections of model i in a picture, as  *)
(* [cls, score, empty]; the result are nodes [stage, cls, children].        *)
Kept(s, d) ==
    /\ s.classFilter = {} \/ d.cls \in s.classFilter
    /\ d.score >= s.conf

KeptOfAll(cfg, sees, i, below) ==
    {[stage |-> i, cls |-> d.cls, children |-> below[i][d.cls]] : d \in sees[i]}

(* runStage: what stage i adds below a detection, each with what the stages *)
(* below i add to it.                                                       *)
runStage(cfg, sees, i, below) ==
    {[stage |-> i, cls |-> d.cls, children |-> below[i][d.cls]] :
        d \in {x \in sees[i] : Kept(cfg[i], x)}}

(* The children of stage s, run on a detection of class c: nothing below the   *)
(* deepest level.                                                           *)
runChildren(cfg, sees) ==
    LET classes == {d.cls : d \in UNION {sees[i] : i \in DOMAIN sees}}
        next(s, c) == {i \in Children(cfg, s) :
                          cfg[i].inputClasses = {} \/ c \in cfg[i].inputClasses}
        below[depth \in 1 .. kMaxDepth + 1] ==
            [s \in DOMAIN cfg |-> [c \in classes |->
                IF depth > kMaxDepth THEN {}
                ELSE UNION {runStage(cfg, sees, i, below[depth + 1]) : i \in next(s, c)}]]
    IN  below

run(cfg, sees) ==
    {[stage |-> 0, cls |-> d.cls, children |-> runChildren(cfg, sees)[1][0][d.cls]] :
        d \in {x \in sees[0] : Kept(cfg[0], x) /\ ~x.empty}}
=============================================================================
