--------------------------- MODULE ModelArtifacts ---------------------------
(***************************************************************************)
(* The two fitted models and their files (backend/streaming.py,             *)
(* backend/supervised_detector.py, backend/warmup*.py): the volumetric      *)
(* model, fitted on a benign day, without which nothing is replayed, and    *)
(* the known-threat model, fitted on the earlier part of the day that is    *)
(* replayed, without which one channel is missing.                          *)
(*                                                                          *)
(* A build reads its day, fits, and dumps the artifact over the file it     *)
(* replaces: from the moment the file is opened to the end of the dump it   *)
(* is torn, and it stays so if the build dies.  Nothing keeps two builds of *)
(* a kind apart: the script's and those started by hand may run, and dump,  *)
(* at once.  A model is what it was fitted on and the features it reads;    *)
(* how it scores is left out.                                               *)
(***************************************************************************)
EXTENDS Naturals, Sequences, SequencesExt

CONSTANTS
    Captures,           \* what may be on disk: each a pair of days, per kind
    MinRows,            \* warmup_min_rows
    SplitOf, SplitBy,   \* supervised_train_split_fraction = SplitOf / SplitBy
    Operators,          \* who may start a build by hand, besides the script
    Current, Older,     \* feature lists: the code's, and one it had before
    Absent, Torn,       \* no file; a file that is not a whole artifact
    NoModel

Kinds == {"volumetric", "known"}

Builders == {"script"} \cup Operators

\* A row of a day is [at |-> its time, attack |-> its label].
ASSUME ArtifactAssumption ==
    /\ Captures \subseteq [Kinds -> Seq([at : Nat, attack : BOOLEAN])]
    /\ "script" \notin Operators
    /\ NoModel \notin [rows : SUBSET Nat, features : {Current, Older}]
    /\ MinRows \in Nat \ {0} /\ SplitOf \in Nat \ {0} /\ SplitBy \in Nat
    /\ SplitOf < SplitBy
    /\ \A c \in Captures : \A kind \in DOMAIN c : \A i, j \in DOMAIN c[kind] :
          i < j => c[kind][i].at <= c[kind][j].at

VARIABLES
    capture,    \* the capture on disk
    file,       \* kind -> content of its artifact file
    build       \* kind -> builder -> its build: "none", "fitted", "writing" the file, or
                \* "clashing" with another that is writing it

artifactVars == <<capture, file, build>>

\* int(n * fraction) rows of the day come first, and are trained on.
SplitAt(day) == (Len(day) * SplitOf) \div SplitBy

\* The rows a model of this kind is fitted on, by their place in the day.
TrainedOn(kind) ==
    LET day == capture[kind]
    IN  IF kind = "known" THEN 1 .. SplitAt(day) ELSE DOMAIN day

Attacks(kind, rows) == {i \in rows : capture[kind][i].attack}

\* fit_from_warmup(): the volumetric model refuses a short day and any attack in it,
\* the known-threat model a training part without one.
Accepts(kind, rows) ==
    IF kind = "known"
      THEN Attacks(kind, rows) # {}
      ELSE Len(capture[kind]) >= MinRows /\ Attacks(kind, rows) = {}

Fitted(kind) == [rows |-> TrainedOn(kind), features |-> Current]

\* An artifact of the code as it was before its feature list was edited.
Outdated(kind) == [rows |-> TrainedOn(kind), features |-> Older]

Idle == [k \in Kinds |-> [who \in Builders |-> "none"]]

ArtifactsInit ==
    /\ capture \in Captures
    /\ file \in [Kinds -> {Absent} \cup UNION {{Fitted(k), Outdated(k)} : k \in Kinds}]
    /\ \A k \in Kinds :
          file[k] # Absent => file[k] \in {Fitted(k), Outdated(k)} /\ Accepts(k, TrainedOn(k))
    /\ build = Idle

\* python -m backend.warmup, backend.warmup_supervised: the day is read and fitted ...
Fit(kind, who) ==
    /\ build[kind][who] = "none" /\ Accepts(kind, TrainedOn(kind))
    /\ build' = [build EXCEPT ![kind][who] = "fitted"]
    /\ UNCHANGED <<capture, file>>

\* Those that have the file open, and the one that opens it.
WritersWith(kind, who) ==
    {who} \cup {w \in Builders : build[kind][w] \in {"writing", "clashing"}}

\* ... save() opens the file, which loses its content ...
OpenFile(kind, who) ==
    LET writers == WritersWith(kind, who)
        stage == IF writers = {who} THEN "writing" ELSE "clashing"
    IN  /\ build[kind][who] = "fitted"
        /\ build' = [build EXCEPT ![kind] =
                        [w \in Builders |-> IF w \in writers THEN stage ELSE @[w]]]
        /\ file' = [file EXCEPT ![kind] = Torn]
        /\ UNCHANGED capture

\* ... and closes it over the whole artifact, or over what two of them wrote into it.
CloseFile(kind, who) ==
    /\ build[kind][who] \in {"writing", "clashing"}
    /\ \E content \in {Fitted(kind), Torn} :
          /\ content = Torn => build[kind][who] = "clashing"
          /\ file' = [file EXCEPT ![kind] = content]
    /\ build' = [build EXCEPT ![kind][who] = "none"]
    /\ UNCHANGED capture

\* The builds die where they are.
BuildsDie ==
    /\ build' = Idle
    /\ UNCHANGED <<capture, file>>

\* Mutant: the feature names of the artifact are not compared.
Loadable_AnyFeatures(kind) == file[kind] \notin {Absent, Torn}

\* load(): a missing file, one that cannot be unpickled and one whose features are not
\* the code's are refused; nothing is ever fitted instead.
Loadable(kind) == file[kind] \notin {Absent, Torn} /\ file[kind].features = Current

Loaded(kind) == IF Loadable(kind) THEN file[kind] ELSE NoModel

=============================================================================
