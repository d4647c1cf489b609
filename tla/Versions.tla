------------------------------ MODULE Versions ------------------------------
(***************************************************************************)
(* Semantic versions, patterns of versions and quantities, as the rest of  *)
(* Racetrack computes with them. A version is <<major, minor, patch,       *)
(* label>>; the label is its rank in the text order of LabelText, 0 being  *)
(* the empty label of a stable version. A text is a sequence of tokens:    *)
(* numbers, separators and words.                                          *)
(***************************************************************************)
EXTENDS Integers, Sequences, FiniteSets, TLC

CONSTANT LabelText      \* rank of a label -> its tokens; LabelText[0] is empty

ASSUME LabelsAreText == /\ DOMAIN LabelText \subseteq Nat
                        /\ 0 \in DOMAIN LabelText /\ LabelText[0] = <<>>

Labels == DOMAIN LabelText
Version == Nat \X Nat \X Nat \X Labels
NoVersion == <<>>

IsStable(v) == v[4] = 0

\* A label sorts before the absence of one, and otherwise as text.
CompareLabels(l1, l2) ==
    CASE l1 = l2 -> 0
      [] l1 # l2 /\ l2 = 0 -> -1
      [] l1 # l2 /\ l1 = 0 -> 1
      [] l1 # l2 /\ l1 # 0 /\ l2 # 0 -> IF l1 < l2 THEN -1 ELSE 1

Compare(v, w) ==
    CASE v[1] # w[1] -> v[1] - w[1]
      [] v[1] = w[1] /\ v[2] # w[2] -> v[2] - w[2]
      [] v[1] = w[1] /\ v[2] = w[2] /\ v[3] # w[3] -> v[3] - w[3]
      [] v[1] = w[1] /\ v[2] = w[2] /\ v[3] = w[3] -> CompareLabels(v[4], w[4])

Text(v) == <<ToString(v[1]), ".", ToString(v[2]), ".", ToString(v[3])>> \o LabelText[v[4]]

\* The highest of a non-empty set of versions.
Newest(vs) == CHOOSE v \in vs : \A w \in vs : Compare(w, v) <= 0

FindLatestStable(vs) ==
    LET stable == {v \in vs : IsStable(v)} IN IF stable = {} THEN NoVersion ELSE Newest(stable)

FindLatest(vs) == IF vs = {} THEN NoVersion ELSE Newest(vs)

(***************************************************************************)
(* A pattern is a sequence of tokens, where "*" stands for one character   *)
(* or more, hence for one token or more.                                   *)
(***************************************************************************)
MatchesText(p, t) ==
    LET m[i \in 0..Len(p)] ==       \* what may be left of the text after i tokens of the pattern
            IF i = 0 THEN {1}
            ELSE UNION {IF p[i] = "*" THEN (j + 1)..(Len(t) + 1)
                        ELSE IF j <= Len(t) /\ t[j] = p[i] THEN {j + 1} ELSE {} : j \in m[i - 1]}
    IN  Len(t) + 1 \in m[Len(p)]

HasWildcard(p) == \E i \in DOMAIN p : p[i] = "*"

FindLatestWildcard(p, vs, onlyStable) ==
    LET found == {v \in vs : (onlyStable => IsStable(v)) /\ MatchesText(p, Text(v))}
    IN  IF found = {} THEN NoVersion ELSE Newest(found)

(***************************************************************************)
(* The version of a job type that a manifest's "name:version" asks for     *)
(* among the installed ones. Malformed stands for one that is not of the   *)
(* form X.Y.Z: comparing with it ends the sorting of all.                  *)
(***************************************************************************)
Malformed == <<0>>
Latest == <<"latest">>

MatchJobTypeVersion(wanted, installed) ==
    LET vs == installed \ {Malformed}
    IN  IF wanted # Latest /\ ~HasWildcard(wanted)
            THEN IF \E v \in vs : Text(v) = wanted THEN CHOOSE v \in vs : Text(v) = wanted ELSE NoVersion
        ELSE IF Malformed \in installed THEN Malformed
        ELSE IF wanted = Latest THEN FindLatest(vs)
        ELSE FindLatestWildcard(wanted, vs, FALSE)
=============================================================================
