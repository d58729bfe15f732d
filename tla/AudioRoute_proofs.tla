-------------------------- MODULE AudioRoute_proofs --------------------------
(***************************************************************************)
(* Theorems about AudioRoute: for every codec and every file with nested   *)
(* tags the routing shows what was selected last.                          *)
(***************************************************************************)
EXTENDS AudioRoute, TLAPS, WellFoundedInduction, FiniteSetTheorems, SequenceTheorems

------------------------------------------------------------------------------
(* Least and greatest numbers.                                             *)

LEMMA LeastExists ==
  ASSUME NEW S \in SUBSET Nat, S # {}
  PROVE  Least(S) \in S /\ \A j \in S : Least(S) <= j
<1> DEFINE Less == {p \in Nat \X Nat : p[1] < p[2]}
<1>1. IsWellFoundedOn(Less, Nat)
  <2>1. Less = OpToRel(<, Nat)
    BY DEF OpToRel
  <2> QED
    BY <2>1, NatLessThanWellFounded
<1> HIDE DEF Less
<1>2. PICK x \in S : \A y \in S : ~ (<<y, x>> \in Less)
  BY <1>1, WFMin
<1>3. \A y \in S : x <= y
  <2> TAKE y \in S
  <2>1. <<y, x>> \in Nat \X Nat
    OBVIOUS
  <2> QED
    BY <1>2, <2>1 DEF Less
<1> QED
  BY <1>3 DEF Least

LEMMA LeastIs ==
  ASSUME NEW S \in SUBSET Nat, NEW x \in S, \A y \in S : x <= y
  PROVE  Least(S) = x
<1>1. Least(S) \in S /\ \A j \in S : Least(S) <= j
  BY LeastExists
<1>2. Least(S) \in Nat /\ x \in Nat
  BY <1>1
<1>3. Least(S) <= x /\ x <= Least(S)
  BY <1>1
<1> QED
  BY <1>2, <1>3

LEMMA GreatestExists ==
  ASSUME NEW n \in Nat, NEW S \in SUBSET (0 .. n), S # {}
  PROVE  Greatest(S) \in S /\ \A j \in S : j <= Greatest(S)
<1> DEFINE T == {n - x : x \in S}
<1>1. T # {}
  OBVIOUS
<1>2. T \in SUBSET Nat
  <2> SUFFICES ASSUME NEW x \in S PROVE n - x \in Nat
    OBVIOUS
  <2>1. x \in 0 .. n
    OBVIOUS
  <2> QED
    BY <2>1
<1>3. PICK y \in T : \A j \in T : y <= j
  BY <1>1, <1>2, LeastExists
<1>4. PICK x \in S : y = n - x
  OBVIOUS
<1>5. \A j \in S : j <= x
  BY <1>3, <1>4
<1> QED
  BY <1>5 DEF Greatest

LEMMA GreatestIs ==
  ASSUME NEW n \in Nat, NEW S \in SUBSET (0 .. n), NEW x \in S, \A y \in S : y <= x
  PROVE  Greatest(S) = x
<1>1. Greatest(S) \in S /\ \A j \in S : j <= Greatest(S)
  BY GreatestExists
<1>2. Greatest(S) \in Nat /\ x \in Nat
  <2>1. Greatest(S) \in 0 .. n /\ x \in 0 .. n
    BY <1>1
  <2> QED
    BY <2>1
<1>3. Greatest(S) <= x /\ x <= Greatest(S)
  BY <1>1
<1> QED
  BY <1>2, <1>3

------------------------------------------------------------------------------
(* Words on controls.                                                      *)

(* Both together; on a control of both the first speaks.                   *)
Over(f, g) == [c \in DOMAIN f \cup DOMAIN g |-> IF c \in DOMAIN f THEN f[c] ELSE g[c]]

(* One more tag, behind the others.                                        *)
LEMMA TogetherGrows ==
  ASSUME NEW w, DOMAIN w \in SUBSET Nat, NEW a \in Nat, \A j \in DOMAIN w : j < a,
         NEW more, DOMAIN more = DOMAIN w \cup {a}, \A j \in DOMAIN w : more[j] = w[j]
  PROVE  Together(more) = Over(Together(w), more[a])
<1> DEFINE D == DOMAIN w
           v == more[a]
           Speak(c) == {j \in D : c \in DOMAIN w[j]}
           Speak2(c) == {j \in D \cup {a} : c \in DOMAIN more[j]}
           All == UNION {DOMAIN w[j] : j \in D}
           All2 == UNION {DOMAIN more[j] : j \in D \cup {a}}
<1>1. \A j \in D : more[j] = w[j]
  OBVIOUS
<1>2. more[a] = v
  OBVIOUS
<1>3. DOMAIN more = D \cup {a}
  OBVIOUS
<1>4. All2 = All \cup DOMAIN v
  BY <1>1, <1>2
<1>5. ASSUME NEW c \in All
      PROVE  more[Least(Speak2(c))] = w[Least(Speak(c))]
  <2>1. Speak(c) \in SUBSET Nat /\ Speak(c) # {}
    OBVIOUS
  <2>2. Least(Speak(c)) \in Speak(c) /\ \A j \in Speak(c) : Least(Speak(c)) <= j
    BY <2>1, LeastExists
  <2>3. Least(Speak(c)) \in Speak2(c)
    BY <1>1, <2>2
  <2>4. ASSUME NEW j \in Speak2(c)
        PROVE  Least(Speak(c)) <= j
    <3>1. CASE j \in D
      BY <1>1, <2>2, <3>1
    <3>2. CASE j = a
      <4>1. Least(Speak(c)) \in D
        BY <2>2
      <4>2. Least(Speak(c)) < a /\ Least(Speak(c)) \in Nat
        BY <4>1
      <4> QED
        BY <3>2, <4>2
    <3> QED
      BY <3>1, <3>2
  <2>5. Least(Speak(c)) \in Speak2(c) /\ \A j \in Speak2(c) : Least(Speak(c)) <= j
    BY <2>3, <2>4
  <2>6. Speak2(c) \in SUBSET Nat
    OBVIOUS
  <2>7. Least(Speak2(c)) = Least(Speak(c))
    BY <2>5, <2>6, LeastIs
  <2> QED
    BY <1>1, <2>2, <2>7
<1>6. ASSUME NEW c \in DOMAIN v, c \notin All
      PROVE  more[Least(Speak2(c))] = v
  <2>1. Speak2(c) = {a}
    <3>1. \A j \in D : c \notin DOMAIN w[j]
      BY <1>6
    <3>2. \A j \in D : j \notin Speak2(c)
      BY <1>1, <3>1
    <3>3. a \in Speak2(c)
      BY <1>2, <1>6
    <3> QED
      BY <3>2, <3>3
  <2>2. Least({a}) = a
    BY LeastIs
  <2> QED
    BY <1>2, <2>1, <2>2
<1>7. Together(more) = [c \in All2 |-> more[Least(Speak2(c))][c]]
  BY <1>3 DEF Together
<1>8. Together(w) = [c \in All |-> w[Least(Speak(c))][c]]
  BY DEF Together
<1> HIDE DEF All, All2, Speak, Speak2
<1>9. Over(Together(w), v) = [c \in All2 |-> IF c \in All THEN w[Least(Speak(c))][c] ELSE v[c]]
  BY <1>4, <1>8 DEF Over
<1>10. ASSUME NEW c \in All2
       PROVE  more[Least(Speak2(c))][c] = IF c \in All THEN w[Least(Speak(c))][c] ELSE v[c]
  <2>1. CASE c \in All
    BY <1>5, <2>1
  <2>2. CASE c \notin All
    <3>1. c \in DOMAIN v
      BY <1>4, <2>2
    <3> QED
      BY <1>6, <2>2, <3>1
  <2> QED
    BY <2>1, <2>2
<1> QED
  BY <1>7, <1>9, <1>10

------------------------------------------------------------------------------
(* Settings of a path.                                                     *)

Distinct(s) == \A i, j \in DOMAIN s : s[i].ctl = s[j].ctl => i = j

(* The controls of the codec that a path sets, and to what.                *)
Meaning(s) ==
  [c \in {s[k].ctl : k \in DOMAIN s} \cap Controls |->
     s[Greatest({k \in DOMAIN s : s[k].ctl = c})].value]

LEMMA MeaningAt ==
  ASSUME NEW s \in Seq(Settings), Distinct(s), NEW k \in DOMAIN s,
         s[k].ctl \in Controls
  PROVE  s[k].ctl \in DOMAIN Meaning(s) /\ Meaning(s)[s[k].ctl] = s[k].value
<1>1. {j \in DOMAIN s : s[j].ctl = s[k].ctl} = {k}
  BY DEF Distinct
<1>2. k \in 0 .. k /\ k \in Nat
  OBVIOUS
<1>3. Greatest({k}) = k
  <2>1. {k} \in SUBSET (0 .. k) /\ k \in {k} /\ \A y \in {k} : y <= k
    BY <1>2
  <2> QED
    BY <1>2, <2>1, GreatestIs
<1> QED
  BY <1>1, <1>3 DEF Meaning

(* The meaning is the one function that agrees with every setting.         *)
LEMMA MeaningIs ==
  ASSUME NEW s \in Seq(Settings), Distinct(s),
         NEW f, f = [c \in DOMAIN f |-> f[c]],
         DOMAIN f = {s[k].ctl : k \in DOMAIN s} \cap Controls,
         \A k \in DOMAIN s : s[k].ctl \in Controls => f[s[k].ctl] = s[k].value
  PROVE  Meaning(s) = f
<1>1. DOMAIN Meaning(s) = DOMAIN f
  BY DEF Meaning
<1>2. ASSUME NEW c \in DOMAIN f
      PROVE  Meaning(s)[c] = f[c]
  <2>1. PICK k \in DOMAIN s : s[k].ctl = c
    OBVIOUS
  <2> QED
    BY <2>1, MeaningAt
<1>3. Meaning(s) = [c \in DOMAIN Meaning(s) |-> Meaning(s)[c]]
  BY DEF Meaning
<1> QED
  BY <1>1, <1>2, <1>3

LEMMA MeaningOfNone ==
  /\ << >> \in Seq(Settings) /\ Distinct(<< >>)
  /\ Meaning(<< >>) = [c \in {} |-> 0]
<1>1. << >> \in Seq(Settings) /\ Distinct(<< >>)
  BY DEF Distinct
<1> DEFINE f == [c \in {} |-> 0]
<1>2. /\ f = [c \in DOMAIN f |-> f[c]]
      /\ DOMAIN f = {<< >>[k].ctl : k \in DOMAIN << >>} \cap Controls
      /\ \A k \in DOMAIN << >> : << >>[k].ctl \in Controls => f[<< >>[k].ctl] = << >>[k].value
  OBVIOUS
<1> QED
  BY <1>1, <1>2, MeaningIs

LEMMA MeaningValues ==
  ASSUME NEW s \in Seq(Settings), Distinct(s)
  PROVE  /\ DOMAIN Meaning(s) \subseteq Controls
         /\ \A c \in DOMAIN Meaning(s) : Meaning(s)[c] \in Int
         /\ \A c \in Controls : c \in DOMAIN Meaning(s) <=> path_setting_exists(s, c)
<1>1. DOMAIN Meaning(s) \subseteq Controls
  BY DEF Meaning
<1>2. ASSUME NEW c \in DOMAIN Meaning(s)
      PROVE  Meaning(s)[c] \in Int
  <2>1. PICK k \in DOMAIN s : s[k].ctl = c
    BY DEF Meaning
  <2>2. s[k] \in Settings
    OBVIOUS
  <2>3. Meaning(s)[c] = s[k].value
    BY <1>1, <2>1, MeaningAt
  <2> QED
    BY <2>2, <2>3 DEF Settings
<1> QED
  BY <1>1, <1>2 DEF Meaning, path_setting_exists

(* path_apply: the meaning of the path lies over the values.               *)
LEMMA MeaningApplied ==
  ASSUME NEW s \in Seq(Settings), Distinct(s), NEW values \in [Controls -> Int]
  PROVE  /\ path_apply(values, s) \in [Controls -> Int]
         /\ \A c \in Controls : path_apply(values, s)[c] =
              IF c \in DOMAIN Meaning(s) THEN Meaning(s)[c] ELSE values[c]
<1>1. ASSUME NEW c \in Controls
      PROVE  path_apply(values, s)[c] =
               IF c \in DOMAIN Meaning(s) THEN Meaning(s)[c] ELSE values[c]
  <2>1. c \in DOMAIN Meaning(s) <=> path_setting_exists(s, c)
    BY MeaningValues
  <2>2. path_apply(values, s)[c] =
          IF path_setting_exists(s, c)
          THEN s[Greatest({i \in DOMAIN s : s[i].ctl = c})].value ELSE values[c]
    BY DEF path_apply
  <2>3. c \in DOMAIN Meaning(s) =>
          Meaning(s)[c] = s[Greatest({i \in DOMAIN s : s[i].ctl = c})].value
    BY DEF Meaning
  <2> QED
    BY <2>1, <2>2, <2>3
<1>2. \A c \in Controls : path_apply(values, s)[c] \in Int
  BY <1>1, MeaningValues
<1>3. path_apply(values, s) = [c \in Controls |-> path_apply(values, s)[c]]
  BY DEF path_apply
<1> QED
  BY <1>1, <1>2, <1>3

LEMMA SettingType ==
  ASSUME NEW name, NEW v \in Int
  PROVE  /\ Setting(name, v) \in Settings
         /\ Setting(name, v).ctl \in Controls <=> name \in Controls
         /\ name \in Controls => Setting(name, v) = [ctl |-> name, value |-> v]
  BY NoneAssumption DEF Setting, Settings

(* path_add_setting: a control that is set already stays as it was.        *)
LEMMA MeaningOfAdded ==
  ASSUME NEW s \in Seq(Settings), Distinct(s), NEW name, NEW v \in Int
  PROVE  LET t == path_add_setting(s, Setting(name, v)) IN
         /\ t \in Seq(Settings) /\ Distinct(t)
         /\ Meaning(t) = Over(Meaning(s), [c \in {name} \cap Controls |-> v])
<1> DEFINE new == Setting(name, v)
           t == path_add_setting(s, new)
           word == [c \in {name} \cap Controls |-> v]
<1>1. new \in Settings /\ (new.ctl \in Controls <=> name \in Controls)
      /\ (name \in Controls => new.ctl = name /\ new.value = v)
  BY SettingType
<1>2. DOMAIN Meaning(s) = {s[k].ctl : k \in DOMAIN s} \cap Controls
  BY DEF Meaning
<1>3. Meaning(s) = [c \in DOMAIN Meaning(s) |-> Meaning(s)[c]]
  BY DEF Meaning
<1> HIDE DEF new
<1>4. CASE path_setting_exists(s, new.ctl)
  <2>1. t = s
    BY <1>4 DEF path_add_setting
  <2>2. name \in Controls => name \in DOMAIN Meaning(s)
    BY <1>1, <1>2, <1>4 DEF path_setting_exists
  <2>3. Over(Meaning(s), word) = Meaning(s)
    BY <1>3, <2>2 DEF Over
  <2> QED
    BY <2>1, <2>3 DEF new
<1>5. CASE ~ path_setting_exists(s, new.ctl)
  <2>1. t = Append(s, new)
    BY <1>5 DEF path_add_setting
  <2>2. t \in Seq(Settings) /\ DOMAIN t = DOMAIN s \cup {Len(s) + 1}
        /\ t[Len(s) + 1] = new
    BY <1>1, <2>1
  <2>3. \A k \in DOMAIN s : t[k] = s[k] /\ s[k].ctl # new.ctl
    BY <1>1, <1>5, <2>1 DEF path_setting_exists
  <2>4. Distinct(t)
    BY <2>2, <2>3 DEF Distinct
  <2> DEFINE f == Over(Meaning(s), word)
  <2>5. f = [c \in DOMAIN f |-> f[c]]
    BY DEF Over
  <2>6. DOMAIN f = {t[k].ctl : k \in DOMAIN t} \cap Controls
    <3>1. DOMAIN f = ({s[k].ctl : k \in DOMAIN s} \cup {name}) \cap Controls
      BY <1>2 DEF Over
    <3>2. {t[k].ctl : k \in DOMAIN t} = {s[k].ctl : k \in DOMAIN s} \cup {new.ctl}
      BY <2>2, <2>3
    <3> QED
      BY <1>1, <3>1, <3>2
  <2>7. ASSUME NEW k \in DOMAIN t, t[k].ctl \in Controls
        PROVE  f[t[k].ctl] = t[k].value
    <3>1. CASE k \in DOMAIN s
      <4>1. t[k].ctl \in DOMAIN Meaning(s) /\ Meaning(s)[t[k].ctl] = t[k].value
        BY <2>3, <2>7, <3>1, MeaningAt
      <4> QED
        BY <4>1 DEF Over
    <3>2. CASE k = Len(s) + 1
      <4>1. name \in Controls /\ t[k].ctl = name /\ t[k].value = v
        BY <1>1, <2>2, <2>7, <3>2
      <4>2. name \notin DOMAIN Meaning(s)
        BY <1>1, <1>2, <2>3, <4>1
      <4> QED
        BY <4>1, <4>2 DEF Over
    <3> QED
      BY <2>2, <3>1, <3>2
  <2> HIDE DEF f, t
  <2>8. t \in Seq(Settings)
    BY <2>2
  <2>9. Meaning(t) = f
    BY <2>4, <2>5, <2>6, <2>7, <2>8, MeaningIs
  <2> QED
    BY <2>4, <2>8, <2>9 DEF new, t, f
<1> QED
  BY <1>4, <1>5

(* What path_add_path makes is made of settings of both.                   *)
LEMMA JoinedFrom ==
  ASSUME NEW s \in Seq(Settings), NEW sub \in Seq(Settings),
         NEW k \in DOMAIN path_add_path(s, sub)
  PROVE  (\E i \in DOMAIN s : path_add_path(s, sub)[k] = s[i])
         \/ (\E i \in DOMAIN sub : path_add_path(s, sub)[k] = sub[i])
<1> DEFINE dup == {i \in DOMAIN sub : path_setting_exists(s, sub[i].ctl)}
           n == IF dup = {} THEN Len(sub) ELSE Least(dup) - 1
           u == SubSeq(sub, 1, n)
<1>1. n \in 0 .. Len(sub)
  <2>1. dup \in SUBSET Nat
    OBVIOUS
  <2>2. dup # {} => Least(dup) \in dup
    BY <2>1, LeastExists
  <2>3. \A i \in dup : i \in 1 .. Len(sub)
    OBVIOUS
  <2> HIDE DEF dup
  <2>4. CASE dup = {}
    BY <2>4
  <2>5. CASE dup # {}
    <3>1. n = Least(dup) - 1
      BY <2>5
    <3> HIDE DEF n
    <3> QED
      BY <2>2, <2>3, <2>5, <3>1
  <2> QED
    BY <2>4, <2>5
<1>2. path_add_path(s, sub) = s \o u
  BY DEF path_add_path
<1> HIDE DEF n
<1>3. u \in Seq(Settings) /\ Len(u) = n /\ \A i \in 1 .. n : u[i] = sub[i]
  BY <1>1
<1> HIDE DEF u
<1>4. k \in 1 .. Len(s) + n /\ Len(s) \in Nat /\ n \in Nat
  BY <1>1, <1>2, <1>3
<1>5. CASE k <= Len(s)
  BY <1>2, <1>3, <1>4, <1>5
<1>6. CASE ~ (k <= Len(s))
  <2>1. k - Len(s) \in 1 .. n /\ (s \o u)[k] = u[k - Len(s)]
    BY <1>3, <1>4, <1>6
  <2>2. k - Len(s) \in DOMAIN sub
    BY <1>1, <2>1
  <2> QED
    BY <1>2, <1>3, <2>1, <2>2
<1> QED
  BY <1>5, <1>6

(* path_add_path: what the path sets already stays as it was, and what the *)
(* sub-path adds is added, when nothing that is dropped was missing.       *)
LEMMA MeaningOfJoined ==
  ASSUME NEW s \in Seq(Settings), Distinct(s), NEW sub \in Seq(Settings), Distinct(sub)
  PROVE  LET t == path_add_path(s, sub) IN
         /\ t \in Seq(Settings) /\ Distinct(t)
         /\ (\A i, j \in DOMAIN sub :
               i < j /\ path_setting_exists(s, sub[i].ctl)
                 => path_setting_exists(s, sub[j].ctl))
            => Meaning(t) = Over(Meaning(s), Meaning(sub))
<1> DEFINE dup == {i \in DOMAIN sub : path_setting_exists(s, sub[i].ctl)}
           n == IF dup = {} THEN Len(sub) ELSE Least(dup) - 1
           t == path_add_path(s, sub)
<1>1. t = s \o SubSeq(sub, 1, n)
  BY DEF path_add_path
<1>2. dup # {} => Least(dup) \in dup /\ \A j \in dup : Least(dup) <= j
  <2>1. dup \in SUBSET Nat
    OBVIOUS
  <2> QED
    BY <2>1, LeastExists
<1>3. n \in 0 .. Len(sub) /\ (dup # {} => n + 1 \in dup) /\ \A i \in dup : n < i
  <2>1. CASE dup = {}
    BY <2>1
  <2>2. CASE dup # {}
    <3>1. Least(dup) \in 1 .. Len(sub)
      BY <1>2, <2>2
    <3>2. n = Least(dup) - 1
      BY <2>2
    <3> HIDE DEF n
    <3>3. \A i \in dup : i \in Nat /\ Least(dup) <= i
      BY <1>2, <2>2
    <3> HIDE DEF dup
    <3>4. n \in 0 .. Len(sub) /\ n + 1 = Least(dup)
      BY <3>1, <3>2
    <3> QED
      BY <1>2, <2>2, <3>1, <3>3, <3>4
  <2> QED
    BY <2>1, <2>2
<1> HIDE DEF n
<1>4. /\ t \in Seq(Settings) /\ Len(t) = Len(s) + n
      /\ \A k \in DOMAIN s : t[k] = s[k]
      /\ \A k \in 1 .. n : t[Len(s) + k] = sub[k]
  <2> DEFINE u == SubSeq(sub, 1, n)
  <2>1. u \in Seq(Settings) /\ Len(u) = n /\ \A k \in 1 .. n : u[k] = sub[k]
    BY <1>3
  <2>2. t = s \o u
    BY <1>1
  <2> HIDE DEF t, u
  <2>3. n \in Nat
    BY <1>3
  <2>4. t \in Seq(Settings) /\ Len(t) = Len(s) + n
    BY <2>1, <2>2, ConcatProperties
  <2>5. \A k \in DOMAIN s : t[k] = s[k]
    BY <2>1, <2>2, <2>3
  <2>6. \A k \in 1 .. n : t[Len(s) + k] = sub[k]
    BY <2>1, <2>2, <2>3
  <2> QED
    BY <2>4, <2>5, <2>6
<1>5. DOMAIN t = 1 .. Len(s) + n /\ DOMAIN s = 1 .. Len(s) /\ DOMAIN sub = 1 .. Len(sub)
      /\ Len(s) \in Nat /\ Len(sub) \in Nat /\ n \in Nat
  BY <1>3, <1>4
<1> HIDE DEF t
<1>6. ASSUME NEW k \in DOMAIN t
      PROVE  \/ k \in DOMAIN s /\ t[k] = s[k]
             \/ \E m \in 1 .. n : k = Len(s) + m /\ t[k] = sub[m]
  <2>1. CASE k <= Len(s)
    BY <1>4, <1>5, <2>1
  <2>2. CASE ~ (k <= Len(s))
    <3>1. k - Len(s) \in 1 .. n /\ k = Len(s) + (k - Len(s))
      BY <1>5, <2>2
    <3> QED
      BY <1>4, <3>1
  <2> QED
    BY <2>1, <2>2
<1>7. ASSUME NEW m \in 1 .. n
      PROVE  m \in DOMAIN sub /\ \A k \in DOMAIN s : s[k].ctl # sub[m].ctl
  <2>1. m \in DOMAIN sub /\ m \notin dup
    BY <1>3, <1>5
  <2> QED
    BY <2>1 DEF path_setting_exists
<1>8. Distinct(t)
  <2> SUFFICES ASSUME NEW i \in DOMAIN t, NEW j \in DOMAIN t, t[i].ctl = t[j].ctl
               PROVE  i = j
    BY DEF Distinct
  <2>1. CASE i \in DOMAIN s /\ t[i] = s[i] /\ j \in DOMAIN s /\ t[j] = s[j]
    BY <2>1 DEF Distinct
  <2>2. ASSUME i \in DOMAIN s, t[i] = s[i], NEW m \in 1 .. n, t[j] = sub[m]
        PROVE  FALSE
    BY <1>7, <2>2
  <2>3. ASSUME j \in DOMAIN s, t[j] = s[j], NEW m \in 1 .. n, t[i] = sub[m]
        PROVE  FALSE
    BY <1>7, <2>3
  <2>4. ASSUME NEW l \in 1 .. n, i = Len(s) + l, t[i] = sub[l],
               NEW m \in 1 .. n, j = Len(s) + m, t[j] = sub[m]
        PROVE  i = j
    <3>1. l \in DOMAIN sub /\ m \in DOMAIN sub /\ sub[l].ctl = sub[m].ctl
      BY <1>7, <2>4
    <3>2. l = m
      BY <3>1 DEF Distinct
    <3> QED
      BY <2>4, <3>2
  <2> QED
    BY <1>6, <2>1, <2>2, <2>3, <2>4
<1>9. ASSUME \A i, j \in DOMAIN sub :
               i < j /\ path_setting_exists(s, sub[i].ctl)
                 => path_setting_exists(s, sub[j].ctl)
      PROVE  Meaning(t) = Over(Meaning(s), Meaning(sub))
  <2> DEFINE f == Over(Meaning(s), Meaning(sub))
             Ctls(u) == {u[k].ctl : k \in DOMAIN u}
  <2>1. f = [c \in DOMAIN f |-> f[c]]
    BY DEF Over
  <2>2. ASSUME NEW m \in DOMAIN sub
        PROVE  m \in 1 .. n \/ path_setting_exists(s, sub[m].ctl)
    <3>1. CASE m <= n
      BY <1>5, <3>1
    <3>2. CASE m = n + 1
      <4>1. n < Len(sub)
        BY <1>5, <3>2
      <4>2. dup # {}
        BY <1>5, <4>1 DEF n
      <4> QED
        BY <1>3, <3>2, <4>2
    <3>3. CASE n + 1 < m
      <4>1. n < Len(sub)
        BY <1>5, <3>3
      <4>2. dup # {}
        BY <1>5, <4>1 DEF n
      <4>3. n + 1 \in DOMAIN sub /\ path_setting_exists(s, sub[n + 1].ctl)
        BY <1>3, <4>2
      <4> QED
        BY <1>9, <3>3, <4>3
    <3> QED
      BY <1>5, <3>1, <3>2, <3>3
  <2>3. DOMAIN f = Ctls(t) \cap Controls
    <3>1. DOMAIN f = (Ctls(s) \cup Ctls(sub)) \cap Controls
      BY DEF Over, Meaning
    <3>2. Ctls(t) \subseteq Ctls(s) \cup Ctls(sub)
      BY <1>6, <1>7
    <3>3. Ctls(s) \subseteq Ctls(t)
      <4> SUFFICES ASSUME NEW k \in DOMAIN s PROVE k \in DOMAIN t /\ t[k] = s[k]
        OBVIOUS
      <4>1. k \in DOMAIN t
        BY <1>5
      <4> QED
        BY <1>4, <4>1
    <3>4. Ctls(sub) \subseteq Ctls(t)
      <4> SUFFICES ASSUME NEW m \in DOMAIN sub PROVE sub[m].ctl \in Ctls(t)
        OBVIOUS
      <4>1. CASE m \in 1 .. n
        <5>1. Len(s) + m \in DOMAIN t
          BY <1>5, <4>1
        <5> QED
          BY <1>4, <4>1, <5>1
      <4>2. CASE path_setting_exists(s, sub[m].ctl)
        BY <3>3, <4>2 DEF path_setting_exists
      <4> QED
        BY <2>2, <4>1, <4>2
    <3> QED
      BY <3>1, <3>2, <3>3, <3>4
  <2>4. ASSUME NEW k \in DOMAIN t, t[k].ctl \in Controls
        PROVE  f[t[k].ctl] = t[k].value
    <3>1. ASSUME k \in DOMAIN s, t[k] = s[k]
          PROVE  f[t[k].ctl] = t[k].value
      <4>1. t[k].ctl \in DOMAIN Meaning(s) /\ Meaning(s)[t[k].ctl] = t[k].value
        BY <2>4, <3>1, MeaningAt
      <4> QED
        BY <4>1 DEF Over
    <3>2. ASSUME NEW m \in 1 .. n, t[k] = sub[m]
          PROVE  f[t[k].ctl] = t[k].value
      <4>1. m \in DOMAIN sub /\ \A l \in DOMAIN s : s[l].ctl # sub[m].ctl
        BY <1>7
      <4>2. t[k].ctl \in DOMAIN Meaning(sub) /\ Meaning(sub)[t[k].ctl] = t[k].value
        BY <2>4, <3>2, <4>1, MeaningAt
      <4>3. t[k].ctl \notin DOMAIN Meaning(s)
        BY <3>2, <4>1 DEF Meaning
      <4> QED
        BY <4>2, <4>3 DEF Over
    <3> QED
      BY <1>6, <3>1, <3>2
  <2>5. DOMAIN f = {t[k].ctl : k \in DOMAIN t} \cap Controls
    BY <2>3
  <2>6. t \in Seq(Settings)
    BY <1>4
  <2> HIDE DEF f
  <2>7. Meaning(t) = f
    BY <1>8, <2>1, <2>4, <2>5, <2>6, MeaningIs
  <2> QED
    BY <2>7 DEF f
<1> QED
  BY <1>4, <1>8, <1>9 DEF t

------------------------------------------------------------------------------
(* The tags of a document.                                                 *)

LEMMA Depth ==
  ASSUME NEW T, NEW d \in Seq(T)
  PROVE  /\ DepthIn(d)[1] = 0
         /\ \A i \in DOMAIN d :
              /\ DepthIn(d)[i] \in Int
              /\ DepthIn(d)[i + 1] = IF d[i].tag = "end" THEN DepthIn(d)[i] - 1
                                                         ELSE DepthIn(d)[i] + 1
<1> DEFINE Opened == [i \in 1 .. Len(d) + 1 |-> {j \in 1 .. i - 1 : d[j].tag # "end"}]
           Closed == [i \in 1 .. Len(d) + 1 |-> {j \in 1 .. i - 1 : d[j].tag = "end"}]
<1>1. \A i \in 1 .. Len(d) + 1 : DepthIn(d)[i] = Cardinality(Opened[i]) - Cardinality(Closed[i])
  BY DEF DepthIn
<1>2. ASSUME NEW i \in 1 .. Len(d) + 1
      PROVE  /\ IsFiniteSet(Opened[i]) /\ Cardinality(Opened[i]) \in Nat
             /\ IsFiniteSet(Closed[i]) /\ Cardinality(Closed[i]) \in Nat
  <2>1. i - 1 \in Int
    OBVIOUS
  <2>2. IsFiniteSet(1 .. i - 1)
    BY <2>1, FS_Interval
  <2>3. Opened[i] \in SUBSET (1 .. i - 1) /\ Closed[i] \in SUBSET (1 .. i - 1)
    OBVIOUS
  <2>4. IsFiniteSet(Opened[i]) /\ IsFiniteSet(Closed[i])
    BY <2>2, <2>3, FS_Subset
  <2> QED
    BY <2>4, FS_CardinalityType
<1>3. DepthIn(d)[1] = 0
  <2>1. Opened[1] = {} /\ Closed[1] = {}
    OBVIOUS
  <2>2. 1 \in 1 .. Len(d) + 1
    OBVIOUS
  <2>3. Cardinality({}) = 0
    BY FS_EmptySet
  <2>4. DepthIn(d)[1] = Cardinality(Opened[1]) - Cardinality(Closed[1])
    BY <1>1, <2>2
  <2> HIDE DEF Opened, Closed
  <2> QED
    BY <2>1, <2>3, <2>4
<1>4. ASSUME NEW i \in DOMAIN d
      PROVE  /\ DepthIn(d)[i] \in Int
             /\ DepthIn(d)[i + 1] = IF d[i].tag = "end" THEN DepthIn(d)[i] - 1
                                                        ELSE DepthIn(d)[i] + 1
  <2>1. i \in 1 .. Len(d) + 1 /\ i + 1 \in 1 .. Len(d) + 1 /\ i \in Nat
    OBVIOUS
  <2>2. i \notin Opened[i] /\ i \notin Closed[i]
    BY <2>1
  <2>3. d[i].tag = "end" => Opened[i + 1] = Opened[i] /\ Closed[i + 1] = Closed[i] \cup {i}
    BY <2>1
  <2>4. d[i].tag # "end" => Opened[i + 1] = Opened[i] \cup {i} /\ Closed[i + 1] = Closed[i]
    BY <2>1
  <2> HIDE DEF Opened, Closed
  <2>5. Cardinality(Opened[i] \cup {i}) = Cardinality(Opened[i]) + 1
        /\ Cardinality(Closed[i] \cup {i}) = Cardinality(Closed[i]) + 1
    BY <1>2, <2>1, <2>2, FS_AddElement
  <2>6. Cardinality(Opened[i]) \in Nat /\ Cardinality(Closed[i]) \in Nat
    BY <1>2, <2>1
  <2>7. /\ DepthIn(d)[i] = Cardinality(Opened[i]) - Cardinality(Closed[i])
        /\ DepthIn(d)[i + 1] = Cardinality(Opened[i + 1]) - Cardinality(Closed[i + 1])
    BY <1>1, <2>1
  <2>8. DepthIn(d)[i] \in Int
    BY <2>6, <2>7
  <2>9. CASE d[i].tag = "end"
    <3>1. Cardinality(Opened[i + 1]) = Cardinality(Opened[i])
          /\ Cardinality(Closed[i + 1]) = Cardinality(Closed[i]) + 1
      BY <2>3, <2>5, <2>9
    <3>2. DepthIn(d)[i + 1] = DepthIn(d)[i] - 1
      BY <2>6, <2>7, <3>1
    <3> QED
      BY <2>8, <2>9, <3>2
  <2>10. CASE d[i].tag # "end"
    <3>1. Cardinality(Opened[i + 1]) = Cardinality(Opened[i]) + 1
          /\ Cardinality(Closed[i + 1]) = Cardinality(Closed[i])
      BY <2>4, <2>5, <2>10
    <3>2. DepthIn(d)[i + 1] = DepthIn(d)[i] + 1
      BY <2>6, <2>7, <3>1
    <3> QED
      BY <2>8, <2>10, <3>2
  <2> QED
    BY <2>9, <2>10
<1> QED
  BY <1>3, <1>4

(* What is inside a path is behind its start, and deeper.                  *)
LEMMA InsideIs ==
  ASSUME NEW d, NEW i \in Int, NEW j \in Inside(d, i), DOMAIN d \subseteq Nat
  PROVE  /\ j \in DOMAIN d /\ i < j /\ d[j].tag \in {"ctl", "path"}
         /\ \A k \in i + 1 .. j : DepthIn(d)[k] > 1
  BY DEF Inside

(* The path a tag is inside of is the last one that began before it.       *)
LEMMA InsideTheLast ==
  ASSUME NEW T, NEW d \in Seq(T), NEW i \in Top(d, "path"), NEW j \in Inside(d, i),
         NEW k \in Top(d, "path"), k < j
  PROVE  k <= i
<1>1. i \in Nat /\ j \in Nat /\ k \in Nat
  BY DEF Top, Inside
<1>2. ASSUME i < k
      PROVE  FALSE
  <2>1. k \in i + 1 .. j
    BY <1>1, <1>2
  <2>2. DepthIn(d)[k] > 1
    BY <2>1 DEF Inside
  <2>3. DepthIn(d)[k] = 1
    BY DEF Top
  <2> QED
    BY <2>2, <2>3
<1> QED
  BY <1>1, <1>2

------------------------------------------------------------------------------
(* What a document says.                                                   *)

(* Every path has a name of its own, and names only paths before it.       *)
InOrder(d) ==
  /\ \A i, j \in Top(d, "path") : d[i].name = d[j].name => i = j
  /\ \A i \in Top(d, "path") : \A j \in Inside(d, i) :
       d[j].tag = "path" => \E k \in Top(d, "path") : k < i /\ d[k].name = d[j].name

(* What the paths give, each from what is inside of it.                    *)
Says(d, f) ==
  f = [name \in PathNames(d) |-> Together([j \in Inside(d, Where(d, name)) |-> Word(d, f, j)])]

LEMMA WhereIs ==
  ASSUME NEW d, InOrder(d), NEW i \in Top(d, "path")
  PROVE  d[i].name \in PathNames(d) /\ Where(d, d[i].name) = i
<1>1. \E k \in Top(d, "path") : d[k].name = d[i].name
  OBVIOUS
<1>2. Where(d, d[i].name) \in Top(d, "path") /\ d[Where(d, d[i].name)].name = d[i].name
  BY <1>1 DEF Where
<1> QED
  BY <1>2 DEF PathNames, InOrder

(* There is but one such function.                                         *)
LEMMA SaysOne ==
  ASSUME NEW T, NEW d \in Seq(T), InOrder(d), NEW f, Says(d, f), NEW g, Says(d, g)
  PROVE  f = g
<1> DEFINE B == {i \in Top(d, "path") : f[d[i].name] # g[d[i].name]}
<1>1. B \in SUBSET Nat
  BY DEF Top
<1>2. ASSUME B # {}
      PROVE  FALSE
  <2> DEFINE i == Least(B)
  <2>1. i \in B /\ \A j \in B : i <= j
    BY <1>1, <1>2, LeastExists
  <2> HIDE DEF i
  <2>2. i \in Top(d, "path") /\ i \in Nat
    BY <1>1, <2>1
  <2>3. ASSUME NEW j \in Inside(d, i)
        PROVE  Word(d, f, j) = Word(d, g, j)
    <3>1. CASE d[j].tag = "ctl"
      BY <3>1 DEF Word
    <3>2. CASE d[j].tag # "ctl"
      <4>1. d[j].tag = "path"
        BY <3>2 DEF Inside
      <4>2. PICK k \in Top(d, "path") : k < i /\ d[k].name = d[j].name
        BY <2>2, <4>1 DEF InOrder
      <4>3. k \notin B
        <5> SUFFICES ASSUME k \in B PROVE FALSE
          OBVIOUS
        <5>1. i <= k /\ k \in Nat
          BY <1>1, <2>1
        <5> QED
          BY <2>2, <4>2, <5>1
      <4>4. f[d[j].name] = g[d[j].name]
        BY <4>2, <4>3
      <4> QED
        BY <3>2, <4>4 DEF Word
    <3> QED
      BY <3>1, <3>2
  <2>4. [j \in Inside(d, i) |-> Word(d, f, j)] = [j \in Inside(d, i) |-> Word(d, g, j)]
    BY <2>3
  <2>5. d[i].name \in PathNames(d) /\ Where(d, d[i].name) = i
    BY <2>2, WhereIs
  <2>6. f[d[i].name] = Together([j \in Inside(d, i) |-> Word(d, f, j)])
    BY <2>5 DEF Says
  <2>7. g[d[i].name] = Together([j \in Inside(d, i) |-> Word(d, g, j)])
    BY <2>5 DEF Says
  <2> QED
    BY <2>1, <2>4, <2>6, <2>7
<1>3. \A name \in PathNames(d) : f[name] = g[name]
  BY <1>2 DEF PathNames
<1>4. f = [name \in PathNames(d) |-> f[name]] /\ g = [name \in PathNames(d) |-> g[name]]
  BY DEF Says
<1> QED
  BY <1>3, <1>4

(* PathValues is that function.                                            *)
LEMMA PathValuesAre ==
  ASSUME NEW d \in Documents, InOrder(d), NEW g, Says(d, g)
  PROVE  PathValues[d] = g
<1> DEFINE p == LET says[name \in PathNames(d)] ==
                      Together([j \in Inside(d, Where(d, name)) |-> Word(d, says, j)])
                IN says
<1>1. PathValues[d] = p
  BY DEF PathValues
<1>2. p = [name \in PathNames(d) |->
             Together([j \in Inside(d, Where(d, name)) |-> Word(d, p, j)])]
  BY DEF Says
<1> HIDE DEF p
<1>3. Says(d, p)
  BY <1>2 DEF Says
<1>4. d \in Seq([tag : {"mixer", "path", "ctl", "end"}, name : STRING, value : Int])
  BY DocumentsAssumption DEF WellFormed
<1> QED
  BY <1>1, <1>3, <1>4, SaysOne

------------------------------------------------------------------------------
(* The inductive invariant: how far the parser is and what it has made of  *)
(* the tags behind it, and how far a selection is.                         *)

Passed == {i \in Top(doc, "path") : i < at}

NamesOnlyEarlier ==
  \A i \in Passed : \A j \in Inside(doc, i) :
    j < at /\ doc[j].tag = "path" => \E k \in Passed : k < i /\ doc[k].name = doc[j].name

PathsOK ==
  /\ doc \in Documents /\ at \in 1 .. Len(doc) + 1
  /\ level = DepthIn(doc)[at] /\ level \in Nat
  /\ DOMAIN paths = {doc[i].name : i \in Passed}
  /\ \A i, j \in Passed : doc[i].name = doc[j].name => i = j
  /\ Passed = {} => path = None
  /\ \A i \in Passed : (\A j \in Passed : j <= i) => path = doc[i].name
  /\ NamesOnlyEarlier
  /\ \A n \in DOMAIN paths : paths[n] \in Seq(Settings) /\ Distinct(paths[n])

(* The codec has what is remembered of it, where it could be set.          *)
ValuesOK ==
  /\ hw \in [Controls -> Int] /\ oldValue \in [Controls -> Int]
  /\ newValue \in [Controls -> Int]
  /\ missed \subseteq Controls \cap Unreliable
  /\ RemembersTheCodec
  /\ overrun \in BOOLEAN

Said == [n \in DOMAIN paths |-> Meaning(paths[n])]

(* The first k paths of a selection over the values to fall back to.       *)
Speakers(sel, k, c) == {i \in 1 .. k : sel[i] \in DOMAIN Said /\ c \in DOMAIN Said[sel[i]]}
LaidOver(sel, k) ==
  [c \in Controls |-> IF Speakers(sel, k, c) = {} THEN resetValue[c]
                      ELSE Said[sel[Greatest(Speakers(sel, k, c))]][c]]

GivenBefore(c) == {i \in Top(doc, "ctl") : i < at /\ doc[i].name = c}

Loading ==
  /\ todo = <<"parse">> /\ asked = None /\ resetValue = None
  /\ \A c \in Controls :
       newValue[c] = IF GivenBefore(c) = {} THEN hw[c] ELSE doc[Greatest(GivenBefore(c))].value
Loaded == at = Len(doc) + 1 /\ resetValue \in [Controls -> Int]
Idle == todo = << >> /\ asked = None
Resetting == asked \in Selections /\ todo = <<"reset">> \o asked \o <<"update">>
Applying ==
  /\ asked \in Selections
  /\ \E k \in 0 .. Len(asked) : /\ todo = SubSeq(asked, k + 1, Len(asked)) \o <<"update">>
                                /\ newValue = LaidOver(asked, k)
PhaseOK == Loading \/ (Loaded /\ (Idle \/ Resetting \/ Applying))

IInv == PathsOK /\ ValuesOK /\ PhaseOK

(* What is inside a path, as far as it is read, makes what the path gives. *)
Built == \A i \in Passed :
  Said[doc[i].name] = Together([j \in {j \in Inside(doc, i) : j < at} |-> Word(doc, Said, j)])

LEMMA DocumentIs ==
  ASSUME NEW d \in Documents
  PROVE  /\ d \in Seq([tag : {"mixer", "path", "ctl", "end"}, name : STRING, value : Int])
         /\ \A i \in DOMAIN d : d[i].tag = "end" => DepthIn(d)[i] > 0
         /\ \A j \in DOMAIN d : d[j].tag \in {"ctl", "path"} /\ DepthIn(d)[j] > 1
              => \E i \in Top(d, "path") : j \in Inside(d, i)
         /\ \A i \in Top(d, "path") : \A j \in Inside(d, i) :
              d[j].tag = "path" => d[j].name # d[i].name
  BY DocumentsAssumption DEF WellFormed

LEMMA PassedIs ==
  ASSUME PathsOK
  PROVE  /\ Passed \in SUBSET (0 .. Len(doc)) /\ Passed \in SUBSET Nat /\ Len(doc) \in Nat
         /\ at \in Nat
         /\ Passed # {} => Greatest(Passed) \in Passed /\ path = doc[Greatest(Passed)].name
<1>1. doc \in Seq([tag : {"mixer", "path", "ctl", "end"}, name : STRING, value : Int])
  BY DocumentIs DEF PathsOK
<1>2. Passed \in SUBSET (0 .. Len(doc)) /\ Len(doc) \in Nat
  BY <1>1 DEF Passed, Top
<1>3. Passed \in SUBSET Nat
  BY <1>1 DEF Passed, Top
<1>4. Passed # {} => Greatest(Passed) \in Passed /\ \A j \in Passed : j <= Greatest(Passed)
  BY <1>2, GreatestExists
<1>5. at \in Nat
  BY <1>2 DEF PathsOK
<1> QED
  BY <1>2, <1>3, <1>4, <1>5 DEF PathsOK

(* The next event, and the depth behind it.                                *)
LEMMA EventIs ==
  ASSUME PathsOK, Parsing
  PROVE  /\ at \in DOMAIN doc /\ at \in Nat /\ at + 1 \in 1 .. Len(doc) + 1
         /\ Event.tag \in {"mixer", "path", "ctl", "end"} /\ Event.value \in Int
         /\ Event.tag = "end" => level > 0
         /\ DepthIn(doc)[at + 1] = IF Event.tag = "end" THEN level - 1 ELSE level + 1
<1>1. doc \in Seq([tag : {"mixer", "path", "ctl", "end"}, name : STRING, value : Int])
      /\ \A i \in DOMAIN doc : doc[i].tag = "end" => DepthIn(doc)[i] > 0
  BY DocumentIs DEF PathsOK
<1>2. at \in DOMAIN doc /\ at \in Nat /\ at + 1 \in 1 .. Len(doc) + 1
  BY <1>1 DEF PathsOK, Parsing
<1>3. doc[at] \in [tag : {"mixer", "path", "ctl", "end"}, name : STRING, value : Int]
  <2> DEFINE T == [tag : {"mixer", "path", "ctl", "end"}, name : STRING, value : Int]
  <2>1. doc \in Seq(T)
    BY <1>1
  <2> HIDE DEF T
  <2>2. doc[at] \in T
    BY <1>2, <2>1
  <2> QED
    BY <2>2 DEF T
<1>4. DepthIn(doc)[at + 1] = IF doc[at].tag = "end" THEN level - 1 ELSE level + 1
  BY <1>1, <1>2, Depth DEF PathsOK
<1> QED
  BY <1>1, <1>2, <1>3, <1>4 DEF Event, PathsOK

(* A tag deeper than the paths is inside of the path that began last, and  *)
(* that is the one being filled.                                           *)
LEMMA CurrentIs ==
  ASSUME PathsOK, Parsing, Event.tag \in {"ctl", "path"}, level > 1
  PROVE  \E i \in Passed :
           /\ at \in Inside(doc, i) /\ path = doc[i].name /\ path \in DOMAIN paths
           /\ \A k \in Passed : k <= i
           /\ \A k \in Top(doc, "path") : at \in Inside(doc, k) => k = i
           /\ Event.tag = "path" => Event.name # path
<1>1. at \in DOMAIN doc /\ at \in Nat
  BY EventIs
<1>2. doc \in Seq([tag : {"mixer", "path", "ctl", "end"}, name : STRING, value : Int])
  BY DocumentIs DEF PathsOK
<1>3. PICK i \in Top(doc, "path") : at \in Inside(doc, i)
  BY <1>1, DocumentIs DEF PathsOK, Event
<1>4. i \in Nat /\ i < at
  BY <1>2, <1>3 DEF Top, Inside
<1>5. i \in Passed
  BY <1>3, <1>4 DEF Passed
<1>6. \A k \in Passed : k <= i
  BY <1>2, <1>3, InsideTheLast DEF Passed
<1>7. ASSUME NEW k \in Top(doc, "path"), at \in Inside(doc, k)
      PROVE  k = i
  <2>1. k \in Nat /\ k < at
    BY <1>2, <1>7 DEF Top, Inside
  <2>2. k <= i
    BY <1>2, <1>3, <2>1, InsideTheLast
  <2>3. i <= k
    BY <1>2, <1>4, <1>7, InsideTheLast
  <2> QED
    BY <1>4, <2>1, <2>2, <2>3
<1>8. path = doc[i].name /\ path \in DOMAIN paths
  BY <1>5, <1>6 DEF PathsOK
<1>9. Event.tag = "path" => Event.name # path
  BY <1>3, <1>8, DocumentIs DEF PathsOK, Event
<1> QED
  BY <1>3, <1>5, <1>6, <1>7, <1>8, <1>9

(* What an event at the top, or one that is no setting, is not inside of.  *)
LEMMA OutsideIs ==
  ASSUME PathsOK, Parsing, Event.tag \notin {"ctl", "path"} \/ level = 1,
         NEW i \in Passed
  PROVE  at \notin Inside(doc, i)
<1>1. at \in Nat /\ i \in Nat
  BY EventIs, PassedIs
<1> SUFFICES ASSUME at \in Inside(doc, i) PROVE FALSE
  OBVIOUS
<1>2. at \in i + 1 .. at
  BY <1>1 DEF Inside
<1>3. DepthIn(doc)[at] > 1 /\ doc[at].tag \in {"ctl", "path"}
  BY <1>2 DEF Inside
<1> QED
  BY <1>3 DEF PathsOK, Event

(* One more event behind: only a path at the top begins another one.       *)
LEMMA PassedGrows ==
  ASSUME PathsOK, Parsing, doc' = doc, at' = at + 1
  PROVE  Passed' = IF Event.tag = "path" /\ level = 1 THEN Passed \cup {at} ELSE Passed
<1>1. at \in DOMAIN doc /\ at \in Nat
  BY EventIs
<1>2. \A i \in Top(doc, "path") : i \in Nat
  BY DocumentIs DEF PathsOK, Top
<1>3. ASSUME NEW i \in Top(doc, "path")
      PROVE  i < at + 1 <=> i < at \/ i = at
  <2>1. i \in Nat
    BY <1>2
  <2> QED
    BY <1>1, <2>1
<1>4. at \in Top(doc, "path") <=> Event.tag = "path" /\ level = 1
  BY <1>1 DEF Top, Event, PathsOK
<1>5. Passed' = {i \in Top(doc, "path") : i < at + 1}
  BY DEF Passed
<1> QED
  BY <1>3, <1>4, <1>5 DEF Passed

(* Reading on in a path, or outside of all.                                *)
LEMMA ReadOn ==
  ASSUME PathsOK, Parsing, doc' = doc, at' = at + 1,
         level' = IF Event.tag = "end" THEN level - 1 ELSE level + 1,
         path' = path, DOMAIN paths' = DOMAIN paths,
         \A n \in DOMAIN paths : paths'[n] \in Seq(Settings) /\ Distinct(paths'[n]),
         Event.tag = "path" => level > 1 /\ Event.name \in DOMAIN paths
  PROVE  PathsOK' /\ Passed' = Passed
<1>1. /\ at \in DOMAIN doc /\ at \in Nat /\ at + 1 \in 1 .. Len(doc) + 1
      /\ Event.tag = "end" => level > 0
      /\ DepthIn(doc)[at + 1] = IF Event.tag = "end" THEN level - 1 ELSE level + 1
  BY EventIs
<1>2. level \in Nat
  BY DEF PathsOK
<1>3. Passed' = Passed
  <2>1. ~ (Event.tag = "path" /\ level = 1)
    BY <1>2
  <2> QED
    BY <2>1, PassedGrows
<1>4. (doc \in Documents /\ at \in 1 .. Len(doc) + 1)'
  BY <1>1 DEF PathsOK
<1>5. (level = DepthIn(doc)[at] /\ level \in Nat)'
  <2>1. level' = DepthIn(doc)[at + 1] /\ level' \in Nat
    BY <1>1, <1>2
  <2> QED
    BY <2>1
<1>6. NamesOnlyEarlier'
  <2> SUFFICES ASSUME NEW i \in Passed, NEW j \in Inside(doc, i), j < at + 1, doc[j].tag = "path"
               PROVE  \E k \in Passed : k < i /\ doc[k].name = doc[j].name
    BY <1>3 DEF NamesOnlyEarlier
  <2>1. j \in Nat
    BY DocumentIs DEF PathsOK, Inside
  <2>2. CASE j < at
    BY <2>2 DEF PathsOK, NamesOnlyEarlier
  <2>3. CASE j = at
    <3>1. Event.tag = "path" /\ Event.name = doc[j].name
      BY <2>3 DEF Event
    <3>2. (\A k \in Passed : k <= i) /\ path = doc[i].name /\ Event.name # path
      <4>1. i \in Top(doc, "path")
        BY DEF Passed
      <4> QED
        BY <2>3, <3>1, <4>1, CurrentIs
    <3>3. PICK k \in Passed : doc[k].name = Event.name
      BY <3>1 DEF PathsOK
    <3>4. k # i /\ k <= i /\ k \in Nat /\ i \in Nat
      BY <3>2, <3>3, PassedIs
    <3> QED
      BY <3>1, <3>3, <3>4
  <2> QED
    BY <1>1, <2>1, <2>2, <2>3
<1> QED
  BY <1>3, <1>4, <1>5, <1>6 DEF PathsOK

(* A path at the top begins.                                               *)
LEMMA PathBegins ==
  ASSUME PathsOK, Parsing, Event.tag = "path", level = 1, doc' = doc, at' = at + 1,
         level' = level + 1, Event.name \notin DOMAIN paths,
         paths' = [n \in DOMAIN paths \cup {Event.name} |->
                     IF n = Event.name THEN << >> ELSE paths[n]],
         path' = Event.name
  PROVE  PathsOK' /\ Passed' = Passed \cup {at}
<1>1. /\ at \in DOMAIN doc /\ at \in Nat /\ at + 1 \in 1 .. Len(doc) + 1
      /\ DepthIn(doc)[at + 1] = level + 1
  BY EventIs
<1>2. Passed' = Passed \cup {at}
  BY PassedGrows
<1>3. Passed \in SUBSET Nat /\ \A i \in Passed : i < at
  BY PassedIs DEF Passed
<1>4. (doc \in Documents /\ at \in 1 .. Len(doc) + 1)'
  BY <1>1 DEF PathsOK
<1>5. (level = DepthIn(doc)[at] /\ level \in Nat)'
  <2>1. level' = DepthIn(doc)[at + 1] /\ level' \in Nat
    BY <1>1
  <2> QED
    BY <2>1
<1>6. (DOMAIN paths = {doc[i].name : i \in Passed})'
  BY <1>2 DEF PathsOK, Event
<1>7. (\A i, j \in Passed : doc[i].name = doc[j].name => i = j)'
  <2>1. \A i \in Passed : doc[i].name # doc[at].name
    BY DEF PathsOK, Event
  <2>2. \A i, j \in Passed \cup {at} : doc[i].name = doc[j].name => i = j
    BY <2>1 DEF PathsOK
  <2> QED
    BY <1>2, <2>2
<1>8. (Passed = {} => path = None)'
  BY <1>2
<1>9. (\A i \in Passed : (\A j \in Passed : j <= i) => path = doc[i].name)'
  <2> SUFFICES ASSUME NEW i \in Passed \cup {at}, \A j \in Passed \cup {at} : j <= i
               PROVE  path' = doc[i].name
    BY <1>2
  <2>1. at <= i
    OBVIOUS
  <2>2. i \notin Passed
    <3> SUFFICES ASSUME i \in Passed PROVE FALSE
      OBVIOUS
    <3>1. i \in Nat /\ i < at
      BY <1>3
    <3> QED
      BY <1>1, <2>1, <3>1
  <2> QED
    BY <2>2 DEF Event
<1>10. NamesOnlyEarlier'
  <2> SUFFICES ASSUME NEW i \in Passed \cup {at}, NEW j \in Inside(doc, i), j < at + 1,
                      doc[j].tag = "path"
               PROVE  \E k \in Passed \cup {at} : k < i /\ doc[k].name = doc[j].name
    BY <1>2 DEF NamesOnlyEarlier
  <2>1. i < j /\ j \in Nat /\ i \in Nat
    BY <1>1, <1>3, DocumentIs DEF PathsOK, Inside
  <2>2. i \in Passed
    BY <1>1, <2>1
  <2>3. CASE j < at
    BY <2>2, <2>3 DEF PathsOK, NamesOnlyEarlier
  <2>4. CASE j = at
    <3>1. DepthIn(doc)[at] > 1
      <4>1. at \in i + 1 .. j
        BY <2>1, <2>4
      <4> QED
        BY <4>1 DEF Inside
    <3> QED
      BY <3>1 DEF PathsOK
  <2> QED
    BY <1>1, <2>1, <2>3, <2>4
<1>11. (\A n \in DOMAIN paths : paths[n] \in Seq(Settings) /\ Distinct(paths[n]))'
  <2> SUFFICES ASSUME NEW n \in DOMAIN paths \cup {Event.name}
               PROVE  paths'[n] \in Seq(Settings) /\ Distinct(paths'[n])
    OBVIOUS
  <2>1. CASE n = Event.name
    <3>1. paths'[n] = << >>
      BY <2>1
    <3> QED
      BY <3>1, MeaningOfNone
  <2>2. CASE n # Event.name
    <3>1. paths'[n] = paths[n] /\ n \in DOMAIN paths
      BY <2>2
    <3> QED
      BY <3>1 DEF PathsOK
  <2> QED
    BY <2>1, <2>2
<1> QED
  BY <1>2, <1>4, <1>5, <1>6, <1>7, <1>8, <1>9, <1>10, <1>11 DEF PathsOK

------------------------------------------------------------------------------
(* What is left of a selection.                                            *)

PathsOfDevices == {"speaker", "headphone", "main-mic-left", "main-mic-top"}
Words == PathsOfDevices \cup {"parse", "reset", "update"}

LEMMA SelectionIs ==
  ASSUME NEW sel \in Selections
  PROVE  sel \in Seq(PathsOfDevices) /\ sel \in Seq(Words) /\ Len(sel) \in Nat
<1>1. PICK s \in {<< >>, <<"speaker">>}, h \in {<< >>, <<"headphone">>},
           m \in {<< >>, <<"main-mic-left">>, <<"main-mic-top">>} : sel = s \o h \o m
  BY DEF Selections
<1>2. << >> \in Seq(PathsOfDevices) /\ \A p \in PathsOfDevices : <<p>> \in Seq(PathsOfDevices)
  OBVIOUS
<1>3. s \in Seq(PathsOfDevices) /\ h \in Seq(PathsOfDevices) /\ m \in Seq(PathsOfDevices)
  <2>1. {"speaker", "headphone", "main-mic-left", "main-mic-top"} \subseteq PathsOfDevices
    BY DEF PathsOfDevices
  <2>2. s \in Seq(PathsOfDevices)
    BY <1>2, <2>1
  <2>3. h \in Seq(PathsOfDevices)
    BY <1>2, <2>1
  <2>4. m \in Seq(PathsOfDevices)
    BY <1>2, <2>1
  <2> QED
    BY <2>2, <2>3, <2>4
<1>4. sel \in Seq(PathsOfDevices)
  BY <1>1, <1>3
<1>5. sel \in Seq(Words)
  BY <1>4, SeqMonotonic DEF Words
<1> QED
  BY <1>4, <1>5

LEMMA ResetFirst ==
  ASSUME NEW sel \in Selections, NEW t, t = <<"reset">> \o sel \o <<"update">>
  PROVE  /\ t # << >> /\ t[1] = "reset"
         /\ Tail(t) = SubSeq(sel, 0 + 1, Len(sel)) \o <<"update">>
<1>1. sel \in Seq(Words) /\ Len(sel) \in Nat /\ "reset" \in Words /\ "update" \in Words
  BY SelectionIs DEF Words
<1> DEFINE r == <<"reset">> \o sel
<1>2. r \in Seq(Words) /\ Len(r) = Len(sel) + 1 /\ r[1] = "reset"
      /\ \A i \in 1 .. Len(sel) : r[i + 1] = sel[i]
  BY <1>1
<1>3. t = Append(r, "update")
  BY <1>1, <1>2, AppendIsConcat
<1> HIDE DEF r
<1>4. r # << >>
  BY <1>1, <1>2
<1>5. t # << >> /\ Head(t) = Head(r) /\ Tail(t) = Append(Tail(r), "update")
  BY <1>1, <1>2, <1>3, <1>4, HeadTailAppend, AppendProperties
<1>6. Tail(r) \in Seq(Words) /\ Len(Tail(r)) = Len(sel) /\ \A i \in 1 .. Len(sel) : Tail(r)[i] = sel[i]
  BY <1>1, <1>2, <1>4, HeadTailProperties
<1>7. Tail(r) = sel
  BY <1>1, <1>6, SeqEqual
<1>8. SubSeq(sel, 0 + 1, Len(sel)) = sel
  BY <1>1, SubSeqFull
<1>9. Tail(t) = SubSeq(sel, 0 + 1, Len(sel)) \o <<"update">>
  BY <1>1, <1>5, <1>7, <1>8, AppendIsConcat
<1>10. t[1] = "reset"
  BY <1>2, <1>5
<1> QED
  BY <1>5, <1>9, <1>10

LEMMA NextOne ==
  ASSUME NEW sel \in Selections, NEW k \in 0 .. Len(sel),
         NEW t, t = SubSeq(sel, k + 1, Len(sel)) \o <<"update">>
  PROVE  /\ t # << >>
         /\ k = Len(sel) => t[1] = "update" /\ Tail(t) = << >>
         /\ k # Len(sel) => /\ k + 1 \in 1 .. Len(sel) /\ t[1] = sel[k + 1]
                            /\ t[1] \notin {"parse", "reset", "update"}
                            /\ Tail(t) = SubSeq(sel, (k + 1) + 1, Len(sel)) \o <<"update">>
<1>1. sel \in Seq(Words) /\ Len(sel) \in Nat /\ sel \in Seq(PathsOfDevices) /\ k \in Nat
      /\ "update" \in Words
  BY SelectionIs DEF Words
<1>2. CASE k = Len(sel)
  <2>1. SubSeq(sel, k + 1, Len(sel)) = << >>
    BY <1>1, <1>2, SubSeqEmpty
  <2>2. <<"update">> \in Seq(Words)
    BY <1>1
  <2>3. t = <<"update">>
    BY <2>1, <2>2, ConcatEmptySeq
  <2> QED
    BY <1>2, <2>3
<1>3. CASE k # Len(sel)
  <2>1. k + 1 \in 1 .. Len(sel) /\ Len(sel) \in k + 1 .. Len(sel)
    BY <1>1, <1>3
  <2> DEFINE v == SubSeq(sel, k + 1, Len(sel))
             w == SubSeq(sel, (k + 1) + 1, Len(sel))
  <2>2. v \in Seq(Words) /\ v # << >>
    <3>1. \A i \in k + 1 .. Len(sel) : sel[i] \in Words
      BY <1>1
    <3>2. k + 1 \in Int /\ Len(sel) \in Int /\ k + 1 <= Len(sel)
      BY <1>1, <2>1
    <3>3. v \in Seq(Words) /\ Len(v) = Len(sel) - (k + 1) + 1
      BY <3>1, <3>2, SubSeqProperties
    <3> HIDE DEF v
    <3>4. Len(v) # 0
      BY <3>2, <3>3
    <3>5. v # << >>
      BY <3>3, <3>4, EmptySeq
    <3> QED
      BY <3>3, <3>5
  <2>3. Head(v) = sel[k + 1] /\ Tail(v) = w
    BY <1>1, <2>1, HeadTailOfSubSeq
  <2>4. t = v \o <<"update">>
    OBVIOUS
  <2> HIDE DEF v
  <2>5. t = Append(v, "update")
    BY <1>1, <2>2, <2>4, AppendIsConcat
  <2>6. t # << >> /\ Head(t) = Head(v) /\ Tail(t) = Append(Tail(v), "update")
    <3>1. t # << >>
      BY <1>1, <2>2, <2>5, AppendProperties
    <3>2. Head(t) = (IF v = << >> THEN "update" ELSE Head(v))
          /\ Tail(t) = (IF v = << >> THEN << >> ELSE Append(Tail(v), "update"))
      BY <2>2, <2>5, HeadTailAppend
    <3> QED
      BY <2>2, <3>1, <3>2
  <2>7. w \in Seq(Words)
    BY <2>2, <2>3, HeadTailProperties
  <2> HIDE DEF w
  <2>8. Tail(t) = w \o <<"update">>
    BY <1>1, <2>3, <2>6, <2>7, AppendIsConcat
  <2>9. t[1] = sel[k + 1] /\ sel[k + 1] \in PathsOfDevices
    BY <1>1, <2>1, <2>3, <2>6
  <2>10. t[1] \notin {"parse", "reset", "update"}
    BY <2>9 DEF PathsOfDevices
  <2> QED
    BY <1>3, <2>1, <2>6, <2>8, <2>9, <2>10 DEF w
<1> QED
  BY <1>2, <1>3

LEMMA SpeakersAre ==
  ASSUME NEW sel, NEW k \in Nat, NEW c
  PROVE  /\ Speakers(sel, k, c) \in SUBSET (0 .. k)
         /\ Speakers(sel, k, c) # {} =>
              Greatest(Speakers(sel, k, c)) \in Speakers(sel, k, c)
<1>1. Speakers(sel, k, c) \in SUBSET (0 .. k)
  BY DEF Speakers
<1> QED
  BY <1>1, GreatestExists

(* One path more of a selection is what audio_route_apply_path applies.    *)
LEMMA LaidOverMore ==
  ASSUME PathsOK, resetValue \in [Controls -> Int], NEW sel, NEW k \in Nat,
         LaidOver(sel, k) \in [Controls -> Int]
  PROVE  /\ LaidOver(sel, k + 1) \in [Controls -> Int]
         /\ LaidOver(sel, k + 1) = IF sel[k + 1] \in DOMAIN paths
                                   THEN path_apply(LaidOver(sel, k), paths[sel[k + 1]])
                                   ELSE LaidOver(sel, k)
<1> DEFINE n == sel[k + 1]
           old == LaidOver(sel, k)
           more == LaidOver(sel, k + 1)
<1>1. DOMAIN Said = DOMAIN paths /\ \A m \in DOMAIN paths : Said[m] = Meaning(paths[m])
  BY DEF Said
<1>2. k \in Nat /\ k + 1 \in Nat
  OBVIOUS
<1>3. ASSUME NEW c \in Controls
      PROVE  more[c] = IF n \in DOMAIN Said /\ c \in DOMAIN Said[n] THEN Said[n][c] ELSE old[c]
  <2> DEFINE S == Speakers(sel, k, c)
             S2 == Speakers(sel, k + 1, c)
  <2>1. S \in SUBSET (0 .. k) /\ S2 \in SUBSET (0 .. k + 1)
    BY <1>2, SpeakersAre
  <2>2. more[c] = (IF S2 = {} THEN resetValue[c] ELSE Said[sel[Greatest(S2)]][c])
        /\ old[c] = (IF S = {} THEN resetValue[c] ELSE Said[sel[Greatest(S)]][c])
    BY DEF LaidOver
  <2>3. S2 = S \cup {i \in {k + 1} : n \in DOMAIN Said /\ c \in DOMAIN Said[n]}
    BY <1>2 DEF Speakers
  <2> HIDE DEF S, S2, more, old
  <2>4. CASE n \in DOMAIN Said /\ c \in DOMAIN Said[n]
    <3>1. S2 = S \cup {k + 1}
      BY <2>3, <2>4
    <3>2. \A y \in S2 : y <= k + 1
      BY <1>2, <2>1, <3>1
    <3>3. Greatest(S2) = k + 1
      BY <1>2, <2>1, <3>1, <3>2, GreatestIs
    <3> QED
      BY <2>2, <2>4, <3>1, <3>3
  <2>5. CASE ~ (n \in DOMAIN Said /\ c \in DOMAIN Said[n])
    <3>1. S2 = S
      BY <2>3, <2>5
    <3> QED
      BY <2>2, <2>5, <3>1
  <2> QED
    BY <2>4, <2>5
<1>4. more = [c \in Controls |-> more[c]] /\ old = [c \in Controls |-> old[c]]
  BY DEF LaidOver
<1> HIDE DEF more, old, n
<1>5. CASE n \in DOMAIN paths
  <2>1. paths[n] \in Seq(Settings) /\ Distinct(paths[n])
    BY <1>5 DEF PathsOK
  <2>2. old \in [Controls -> Int]
    BY DEF old
  <2> DEFINE p == path_apply(old, paths[n])
  <2>3. p \in [Controls -> Int]
        /\ \A c \in Controls :
             p[c] = IF c \in DOMAIN Meaning(paths[n]) THEN Meaning(paths[n])[c] ELSE old[c]
    BY <2>1, <2>2, MeaningApplied
  <2> HIDE DEF p
  <2>4. \A c \in Controls : more[c] = p[c]
    BY <1>1, <1>3, <1>5, <2>3
  <2>5. more = p
    BY <1>4, <2>3, <2>4
  <2> QED
    BY <1>5, <2>3, <2>5 DEF more, old, n, p
<1>6. CASE n \notin DOMAIN paths
  <2>1. more = old
    BY <1>1, <1>3, <1>4, <1>6
  <2> QED
    BY <1>6, <2>1 DEF more, old, n
<1> QED
  BY <1>5, <1>6

LEMMA LaidOverNone ==
  ASSUME resetValue \in [Controls -> Int], NEW sel
  PROVE  LaidOver(sel, 0) = resetValue
<1>1. \A c \in Controls : Speakers(sel, 0, c) = {}
  BY DEF Speakers
<1>2. LaidOver(sel, 0) = [c \in Controls |-> resetValue[c]]
  BY <1>1 DEF LaidOver
<1> QED
  BY <1>2

LEMMA GivenAre ==
  ASSUME PathsOK, NEW c
  PROVE  /\ GivenBefore(c) \in SUBSET (0 .. at) /\ at \in Nat
         /\ GivenBefore(c) # {} => Greatest(GivenBefore(c)) \in GivenBefore(c)
<1>1. doc \in Seq([tag : {"mixer", "path", "ctl", "end"}, name : STRING, value : Int])
      /\ at \in Nat
  BY DocumentIs, PassedIs DEF PathsOK
<1>2. GivenBefore(c) \in SUBSET (0 .. at)
  BY <1>1 DEF GivenBefore, Top
<1> QED
  BY <1>1, <1>2, GreatestExists

(* One more event behind: only a control at the top gives an initial       *)
(* value.                                                                  *)
LEMMA GivenGrows ==
  ASSUME PathsOK, Parsing, doc' = doc, at' = at + 1, NEW c
  PROVE  GivenBefore(c)' = IF Event.tag = "ctl" /\ level = 1 /\ Event.name = c
                           THEN GivenBefore(c) \cup {at} ELSE GivenBefore(c)
<1>1. at \in DOMAIN doc /\ at \in Nat
  BY EventIs
<1>2. \A i \in Top(doc, "ctl") : i \in Nat
  BY DocumentIs DEF PathsOK, Top
<1>3. ASSUME NEW i \in Top(doc, "ctl")
      PROVE  i < at + 1 <=> i < at \/ i = at
  <2>1. i \in Nat
    BY <1>2
  <2> QED
    BY <1>1, <2>1
<1>4. at \in Top(doc, "ctl") <=> Event.tag = "ctl" /\ level = 1
  BY <1>1 DEF Top, Event, PathsOK
<1>5. GivenBefore(c)' = {i \in Top(doc, "ctl") : i < at + 1 /\ doc[i].name = c}
  BY DEF GivenBefore
<1> QED
  BY <1>3, <1>4, <1>5 DEF GivenBefore, Event

(* The next call tells where a selection is.                               *)
LEMMA WhichPhase ==
  ASSUME PhaseOK
  PROVE  /\ todo = << >> => Loaded /\ Idle
         /\ todo # << >> /\ todo[1] = "parse" => Loading
         /\ todo # << >> /\ todo[1] = "reset" => Loaded /\ Resetting
         /\ todo # << >> /\ todo[1] \notin {"parse", "reset"} => Loaded /\ Applying
<1>1. Loading => todo # << >> /\ todo[1] = "parse"
  BY DEF Loading
<1>2. Idle => todo = << >>
  BY DEF Idle
<1>3. Resetting => todo # << >> /\ todo[1] = "reset"
  BY ResetFirst DEF Resetting
<1>4. Applying => todo # << >> /\ todo[1] \notin {"parse", "reset"}
  <2> SUFFICES ASSUME Applying
               PROVE  todo # << >> /\ todo[1] \notin {"parse", "reset"}
    OBVIOUS
  <2>1. PICK k \in 0 .. Len(asked) : todo = SubSeq(asked, k + 1, Len(asked)) \o <<"update">>
    BY DEF Applying
  <2>2. asked \in Selections /\ Len(asked) \in Nat
    BY SelectionIs DEF Applying
  <2>3. todo # << >> /\ (k = Len(asked) => todo[1] = "update")
        /\ (k # Len(asked) => todo[1] \notin {"parse", "reset", "update"})
    BY <2>1, <2>2, NextOne
  <2> QED
    BY <2>3
<1> QED
  BY <1>1, <1>2, <1>3, <1>4 DEF PhaseOK

LEMMA LoadingKept ==
  ASSUME PathsOK, Parsing, Loading, doc' = doc, at' = at + 1,
         ~ (Event.tag = "ctl" /\ level = 1),
         UNCHANGED <<newValue, hw, asked, todo, resetValue>>
  PROVE  Loading'
<1>1. ASSUME NEW c \in Controls
      PROVE  GivenBefore(c)' = GivenBefore(c)
  BY GivenGrows
<1> SUFFICES ASSUME NEW c \in Controls
             PROVE  newValue[c] = IF GivenBefore(c)' = {} THEN hw[c]
                                  ELSE doc[Greatest(GivenBefore(c)')].value
  BY DEF Loading
<1> QED
  BY <1>1 DEF Loading

(* The codec gets what is wanted but for the controls that are missed, and *)
(* what was wanted is what is remembered.                                  *)
LEMMA Written ==
  ASSUME ValuesOK, WriteChanged
  PROVE  /\ hw' = [c \in Controls |-> IF c \in missed' THEN hw[c] ELSE newValue[c]]
         /\ hw' \in [Controls -> Int] /\ oldValue' = newValue
         /\ missed' \subseteq Controls \cap Unreliable
<1>1. PICK failing \in SUBSET (Unreliable \cap Changed) :
        /\ hw' = [c \in Controls |-> IF c \in Changed \ failing THEN newValue[c] ELSE hw[c]]
        /\ missed' = (missed \ Changed) \cup failing
        /\ oldValue' = newValue
  BY DEF WriteChanged, Remembered
<1>2. missed' \subseteq Controls \cap Unreliable
  BY <1>1 DEF ValuesOK, Changed
<1>3. ASSUME NEW c \in Controls
      PROVE  hw'[c] = IF c \in missed' THEN hw[c] ELSE newValue[c]
  <2>1. hw'[c] = IF c \in Changed \ failing THEN newValue[c] ELSE hw[c]
    BY <1>1
  <2>2. c \notin Changed => oldValue[c] = newValue[c]
    BY DEF Changed
  <2>3. c \notin missed => oldValue[c] = hw[c]
    BY DEF ValuesOK, RemembersTheCodec
  <2> QED
    BY <1>1, <2>1, <2>2, <2>3
<1>4. hw' = [c \in Controls |-> IF c \in missed' THEN hw[c] ELSE newValue[c]]
  BY <1>1, <1>3
<1>5. hw' \in [Controls -> Int]
  BY <1>4 DEF ValuesOK
<1> QED
  BY <1>1, <1>2, <1>4, <1>5

(* So what is remembered is what the codec has.                            *)
LEMMA WrittenOK ==
  ASSUME ValuesOK, WriteChanged, newValue' = newValue, overrun' = overrun
  PROVE  ValuesOK'
<1>1. /\ hw' = [c \in Controls |-> IF c \in missed' THEN hw[c] ELSE newValue[c]]
      /\ hw' \in [Controls -> Int] /\ oldValue' = newValue
      /\ missed' \subseteq Controls \cap Unreliable
  BY Written
<1>2. \A c \in Controls \ missed' : oldValue'[c] = hw'[c]
  BY <1>1
<1> QED
  BY <1>1, <1>2 DEF ValuesOK, RemembersTheCodec

LEMMA InitIInv == Init => IInv
<1> SUFFICES ASSUME Init PROVE IInv
  OBVIOUS
<1>1. doc \in Documents /\ at = 1 /\ level = 0 /\ path = None /\ paths = << >>
      /\ hw \in [Controls -> HwValues] /\ oldValue = hw /\ newValue = hw
      /\ resetValue = None /\ missed = {} /\ asked = None /\ todo = <<"parse">>
      /\ overrun = FALSE
  BY DEF Init
<1>2. doc \in Seq([tag : {"mixer", "path", "ctl", "end"}, name : STRING, value : Int])
  BY <1>1, DocumentIs
<1>3. Len(doc) \in Nat
  BY <1>2
<1>4. Passed = {}
  BY <1>1, <1>2 DEF Passed, Top
<1>5. DepthIn(doc)[at] = 0
  BY <1>1, <1>2, Depth
<1>6. DOMAIN paths = {}
  BY <1>1
<1>7. PathsOK
  BY <1>1, <1>3, <1>4, <1>5, <1>6 DEF PathsOK, NamesOnlyEarlier
<1>8. ValuesOK
  BY <1>1, ValuesAssumption DEF ValuesOK, RemembersTheCodec
<1>9. \A c \in Controls : GivenBefore(c) = {}
  BY <1>1, <1>2 DEF GivenBefore, Top
<1>10. Loading
  BY <1>1, <1>9 DEF Loading
<1> QED
  BY <1>7, <1>8, <1>10 DEF IInv, PhaseOK

LEMMA TypeOfIInv == IInv => TypeOK
<1> SUFFICES ASSUME IInv PROVE TypeOK
  OBVIOUS
<1>1. path \in DOMAIN paths \cup {None}
  <2>1. CASE Passed = {}
    BY <2>1 DEF IInv, PathsOK
  <2>2. CASE Passed # {}
    <3>1. Greatest(Passed) \in Passed /\ path = doc[Greatest(Passed)].name
      BY <2>2, PassedIs DEF IInv
    <3> QED
      BY <3>1 DEF IInv, PathsOK
  <2> QED
    BY <2>1, <2>2
<1>2. asked \in Selections \cup {None} /\ resetValue \in [Controls -> Int] \cup {None}
  BY DEF IInv, PhaseOK, Loading, Loaded, Idle, Resetting, Applying
<1>3. doc \in Documents /\ at \in 1 .. Len(doc) + 1 /\ level \in Nat
      /\ \A n \in DOMAIN paths : paths[n] \in Seq(Settings) /\ Distinct(paths[n])
  BY DEF IInv, PathsOK
<1>4. oldValue \in [Controls -> Int] /\ newValue \in [Controls -> Int]
      /\ hw \in [Controls -> Int] /\ missed \subseteq Controls /\ overrun \in BOOLEAN
  BY DEF IInv, ValuesOK
<1> QED
  BY <1>1, <1>2, <1>3, <1>4 DEF TypeOK, Distinct

------------------------------------------------------------------------------
(* One lemma for each action.                                              *)

LEMMA PathsUnchanged ==
  ASSUME PathsOK, UNCHANGED parseVars
  PROVE  PathsOK'
<1>1. doc' = doc /\ at' = at /\ level' = level /\ path' = path /\ paths' = paths
  BY DEF parseVars
<1>2. Passed' = Passed
  BY <1>1 DEF Passed
<1>3. NamesOnlyEarlier'
  BY <1>1, <1>2 DEF NamesOnlyEarlier, PathsOK
<1> QED
  BY <1>1, <1>2, <1>3 DEF PathsOK

LEMMA StepPath ==
  ASSUME IInv, start_tag_Path
  PROVE  IInv'
<1>1. Parsing /\ Event.tag = "path" /\ doc' = doc /\ at' = at + 1 /\ level' = level + 1
      /\ UNCHANGED <<oldValue, newValue, resetValue, hw, missed, asked, todo, overrun>>
  BY DEF start_tag_Path
<1>2. PathsOK /\ ValuesOK /\ Loading
  BY <1>1, WhichPhase DEF IInv, Parsing
<1>3. PathsOK'
  <2>1. CASE level = 1 /\ path' = Event.name
    <3>1. Event.name \notin DOMAIN paths
          /\ paths' = [n \in DOMAIN paths \cup {Event.name} |->
                         IF n = Event.name THEN << >> ELSE paths[n]]
      BY <2>1 DEF start_tag_Path
    <3> QED
      BY <1>1, <1>2, <2>1, <3>1, PathBegins
  <2>2. CASE ~ (level = 1 /\ path' = Event.name)
    <3>1. level > 1 /\ Event.name \in DOMAIN paths /\ path' = path
          /\ paths' = [paths EXCEPT ![path] = path_add_path(paths[path], paths[Event.name])]
      BY <2>2 DEF start_tag_Path
    <3>2. path \in DOMAIN paths
      BY <1>1, <1>2, <3>1, CurrentIs
    <3>3. path_add_path(paths[path], paths[Event.name]) \in Seq(Settings)
          /\ Distinct(path_add_path(paths[path], paths[Event.name]))
      BY <1>2, <3>1, <3>2, MeaningOfJoined DEF PathsOK
    <3>4. DOMAIN paths' = DOMAIN paths
      BY <3>1
    <3>5. ASSUME NEW n \in DOMAIN paths
          PROVE  paths'[n] \in Seq(Settings) /\ Distinct(paths'[n])
      <4>1. CASE n = path
        BY <3>1, <3>3, <4>1
      <4>2. CASE n # path
        <5>1. paths'[n] = paths[n]
          BY <3>1, <4>2
        <5> QED
          BY <1>2, <5>1 DEF PathsOK
      <4> QED
        BY <4>1, <4>2
    <3>6. level' = IF Event.tag = "end" THEN level - 1 ELSE level + 1
      BY <1>1
    <3> QED
      BY <1>1, <1>2, <3>1, <3>4, <3>5, <3>6, ReadOn
  <2> QED
    BY <2>1, <2>2
<1>4. ValuesOK'
  BY <1>1, <1>2 DEF ValuesOK, RemembersTheCodec
<1>5. Loading'
  BY <1>1, <1>2, LoadingKept
<1> QED
  BY <1>3, <1>4, <1>5 DEF IInv, PhaseOK

LEMMA StepCtl ==
  ASSUME IInv, start_tag_Ctl
  PROVE  IInv'
<1> DEFINE s == Setting(Event.name, Event.value)
<1>1. Parsing /\ Event.tag = "ctl" /\ doc' = doc /\ at' = at + 1 /\ level' = level + 1
      /\ UNCHANGED <<path, oldValue, resetValue, hw, missed, asked, todo>>
  BY DEF start_tag_Ctl
<1>2. PathsOK /\ ValuesOK /\ Loading
  BY <1>1, WhichPhase DEF IInv, Parsing
<1>3. Event.value \in Int /\ at \in Nat
  BY <1>1, <1>2, EventIs
<1>4. s \in Settings /\ (s.ctl \in Controls <=> Event.name \in Controls)
      /\ (Event.name \in Controls => s = [ctl |-> Event.name, value |-> Event.value])
  BY <1>3, SettingType
<1>5. level' = IF Event.tag = "end" THEN level - 1 ELSE level + 1
  BY <1>1
<1>6. CASE level = 1 /\ UNCHANGED paths
  <2>1. newValue' = Want(newValue, s) /\ overrun' = (overrun \/ s.ctl = None)
    BY <1>2, <1>6 DEF start_tag_Ctl, PathsOK
  <2>2. \A n \in DOMAIN paths : paths'[n] \in Seq(Settings) /\ Distinct(paths'[n])
    BY <1>2, <1>6 DEF PathsOK
  <2>3. PathsOK'
    BY <1>1, <1>2, <1>5, <1>6, <2>2, ReadOn
  <2>4. newValue' = IF Event.name \in Controls
                    THEN [newValue EXCEPT ![Event.name] = Event.value] ELSE newValue
    <3>1. Event.name \notin Controls => s.ctl = None
      BY DEF Setting
    <3>2. Event.name \in Controls => s.ctl # None
      BY <1>4, NoneAssumption
    <3> HIDE DEF s
    <3>3. CASE Event.name \in Controls
      <4>1. s.ctl = Event.name /\ s.value = Event.value
        BY <1>4, <3>3
      <4> QED
        BY <2>1, <3>2, <3>3, <4>1 DEF Want
    <3>4. CASE Event.name \notin Controls
      BY <2>1, <3>1, <3>4 DEF Want
    <3> QED
      BY <3>3, <3>4
  <2>5. newValue \in [Controls -> Int] /\ newValue' \in [Controls -> Int]
    BY <1>2, <1>3, <2>4 DEF ValuesOK
  <2>6. ValuesOK'
    <3>1. overrun' \in BOOLEAN
      BY <2>1
    <3> QED
      BY <1>1, <1>2, <2>5, <3>1 DEF ValuesOK, RemembersTheCodec
  <2>7. ASSUME NEW c \in Controls
        PROVE  newValue'[c] = IF GivenBefore(c)' = {} THEN hw[c]
                              ELSE doc[Greatest(GivenBefore(c)')].value
    <3>1. CASE Event.name = c
      <4>1. GivenBefore(c)' = GivenBefore(c) \cup {at}
        BY <1>1, <1>2, <1>6, <3>1, GivenGrows
      <4>2. GivenBefore(c) \cup {at} \in SUBSET (0 .. at)
            /\ \A y \in GivenBefore(c) \cup {at} : y <= at
        <5>1. GivenBefore(c) \in SUBSET (0 .. at)
          BY <1>2, GivenAre
        <5>2. ASSUME NEW y \in GivenBefore(c)
              PROVE  y <= at
          <6>1. y \in 0 .. at
            BY <5>1
          <6> QED
            BY <6>1
        <5>3. at \in 0 .. at /\ at <= at
          BY <1>3
        <5> QED
          BY <5>1, <5>2, <5>3
      <4>3. Greatest(GivenBefore(c) \cup {at}) = at
        BY <1>3, <4>2, GreatestIs
      <4>4. newValue'[c] = doc[at].value
        BY <2>4, <2>5, <3>1 DEF Event
      <4> QED
        BY <4>1, <4>3, <4>4
    <3>2. CASE Event.name # c
      <4>1. GivenBefore(c)' = GivenBefore(c)
        BY <1>1, <1>2, <3>2, GivenGrows
      <4>2. newValue'[c] = newValue[c]
        BY <2>4, <2>5, <3>2
      <4> QED
        BY <1>2, <4>1, <4>2 DEF Loading
    <3> QED
      BY <3>1, <3>2
  <2>8. Loading'
    BY <1>1, <1>2, <2>7 DEF Loading
  <2> QED
    BY <2>3, <2>6, <2>8 DEF IInv, PhaseOK
<1>7. CASE ~ (level = 1 /\ UNCHANGED paths)
  <2>1. level > 1 /\ UNCHANGED <<newValue, overrun>>
        /\ paths' = [paths EXCEPT ![path] = path_add_setting(paths[path], s)]
    BY <1>7 DEF start_tag_Ctl
  <2>2. path \in DOMAIN paths
    BY <1>1, <1>2, <2>1, CurrentIs
  <2>3. path_add_setting(paths[path], s) \in Seq(Settings)
        /\ Distinct(path_add_setting(paths[path], s))
    BY <1>2, <1>3, <2>2, MeaningOfAdded DEF PathsOK
  <2>4. DOMAIN paths' = DOMAIN paths
    BY <2>1
  <2> HIDE DEF s
  <2>5. ASSUME NEW n \in DOMAIN paths
        PROVE  paths'[n] \in Seq(Settings) /\ Distinct(paths'[n])
    <3>1. CASE n = path
      BY <2>1, <2>3, <3>1
    <3>2. CASE n # path
      <4>1. paths'[n] = paths[n]
        BY <2>1, <3>2
      <4> QED
        BY <1>2, <4>1 DEF PathsOK
    <3> QED
      BY <3>1, <3>2
  <2>6. PathsOK'
    BY <1>1, <1>2, <1>5, <2>4, <2>5, ReadOn
  <2>7. ValuesOK'
    BY <1>1, <1>2, <2>1 DEF ValuesOK, RemembersTheCodec
  <2>8. Loading'
    BY <1>1, <1>2, <2>1, LoadingKept
  <2> QED
    BY <2>6, <2>7, <2>8 DEF IInv, PhaseOK
<1> QED
  BY <1>6, <1>7

LEMMA StepOther ==
  ASSUME IInv, start_tag_Other \/ end_tag
  PROVE  IInv'
<1>1. Parsing /\ Event.tag \in {"mixer", "end"} /\ doc' = doc /\ at' = at + 1
      /\ level' = (IF Event.tag = "end" THEN level - 1 ELSE level + 1)
      /\ UNCHANGED <<path, paths, oldValue, newValue, resetValue, hw, missed, asked, todo, overrun>>
  BY DEF start_tag_Other, end_tag
<1>2. PathsOK /\ ValuesOK /\ Loading
  BY <1>1, WhichPhase DEF IInv, Parsing
<1>3. \A n \in DOMAIN paths : paths'[n] \in Seq(Settings) /\ Distinct(paths'[n])
  BY <1>1, <1>2 DEF PathsOK
<1>4. PathsOK'
  BY <1>1, <1>2, <1>3, ReadOn
<1>5. ValuesOK'
  BY <1>1, <1>2 DEF ValuesOK, RemembersTheCodec
<1>6. Loading'
  BY <1>1, <1>2, LoadingKept
<1> QED
  BY <1>4, <1>5, <1>6 DEF IInv, PhaseOK

LEMMA StepInit ==
  ASSUME IInv, audio_route_init
  PROVE  /\ IInv' /\ Loading /\ at = Len(doc) + 1 /\ (Loaded /\ Idle)'
         /\ hw' = [c \in Controls |-> IF c \in missed' THEN hw[c] ELSE newValue[c]]
         /\ missed' \subseteq Unreliable /\ resetValue' = hw'
<1>1. todo # << >> /\ todo[1] = "parse" /\ at > Len(doc) /\ WriteChanged /\ resetValue' = hw'
      /\ todo' = << >> /\ UNCHANGED <<parseVars, newValue, asked, overrun>>
  BY DEF audio_route_init
<1>2. PathsOK /\ ValuesOK /\ Loading
  BY <1>1, WhichPhase DEF IInv
<1>3. /\ hw' = [c \in Controls |-> IF c \in missed' THEN hw[c] ELSE newValue[c]]
      /\ hw' \in [Controls -> Int] /\ missed' \subseteq Unreliable
  BY <1>1, <1>2, Written
<1>4. at = Len(doc) + 1
  <2>1. Len(doc) \in Nat /\ at \in 1 .. Len(doc) + 1
    BY <1>2, PassedIs DEF PathsOK
  <2> QED
    BY <1>1, <2>1
<1>5. PathsOK'
  BY <1>1, <1>2, PathsUnchanged
<1>6. ValuesOK'
  BY <1>1, <1>2, WrittenOK
<1>7. Loaded'
  BY <1>1, <1>3, <1>4 DEF Loaded, parseVars
<1>8. Idle'
  BY <1>1, <1>2 DEF Idle, Loading
<1> QED
  BY <1>1, <1>2, <1>3, <1>4, <1>5, <1>6, <1>7, <1>8 DEF IInv, PhaseOK

LEMMA StepSelect ==
  ASSUME IInv, select_devices
  PROVE  IInv' /\ Loaded /\ Idle /\ asked' \in Selections
<1>1. todo = << >> /\ UNCHANGED <<parseVars, oldValue, newValue, resetValue, hw, missed, overrun>>
  BY DEF select_devices
<1>2. PICK sel \in Selections : asked' = sel /\ todo' = <<"reset">> \o sel \o <<"update">>
  BY DEF select_devices
<1>3. PathsOK /\ ValuesOK /\ Loaded /\ Idle
  BY <1>1, WhichPhase DEF IInv
<1>4. PathsOK'
  BY <1>1, <1>3, PathsUnchanged
<1>5. ValuesOK'
  BY <1>1, <1>3 DEF ValuesOK, RemembersTheCodec
<1>6. Loaded'
  BY <1>1, <1>3 DEF Loaded, parseVars
<1>7. Resetting'
  BY <1>2 DEF Resetting
<1> QED
  BY <1>2, <1>3, <1>4, <1>5, <1>6, <1>7 DEF IInv, PhaseOK

LEMMA StepReset ==
  ASSUME IInv, reset_mixer_state
  PROVE  IInv' /\ Loaded
<1>1. todo # << >> /\ todo[1] = "reset" /\ newValue' = resetValue /\ todo' = Tail(todo)
      /\ UNCHANGED <<parseVars, oldValue, resetValue, hw, missed, asked, overrun>>
  BY DEF reset_mixer_state
<1>2. PathsOK /\ ValuesOK /\ Loaded /\ Resetting
  BY <1>1, WhichPhase DEF IInv
<1>3. PathsOK'
  BY <1>1, <1>2, PathsUnchanged
<1>4. ValuesOK'
  BY <1>1, <1>2 DEF ValuesOK, Loaded, RemembersTheCodec
<1>5. Loaded'
  BY <1>1, <1>2 DEF Loaded, parseVars
<1>6. Applying'
  <2>1. asked \in Selections /\ todo' = SubSeq(asked, 0 + 1, Len(asked)) \o <<"update">>
    BY <1>1, <1>2, ResetFirst DEF Resetting
  <2>2. 0 \in 0 .. Len(asked)
    BY <2>1, SelectionIs
  <2>3. LaidOver(asked, 0)' = LaidOver(asked, 0) /\ LaidOver(asked, 0) = resetValue
    BY <1>1, <1>2, LaidOverNone DEF LaidOver, Speakers, Said, parseVars, Loaded
  <2>4. newValue' = LaidOver(asked, 0)'
    BY <1>1, <2>3
  <2>5. asked' = asked
    BY <1>1
  <2> QED
    BY <2>1, <2>2, <2>4, <2>5 DEF Applying
<1> QED
  BY <1>2, <1>3, <1>4, <1>5, <1>6 DEF IInv, PhaseOK

LEMMA StepApply ==
  ASSUME IInv, audio_route_apply_path
  PROVE  IInv' /\ Loaded
<1>1. todo # << >> /\ todo[1] \notin {"parse", "reset", "update"} /\ todo' = Tail(todo)
      /\ UNCHANGED <<parseVars, oldValue, resetValue, hw, missed, asked>>
  BY DEF audio_route_apply_path
<1>2. newValue' = IF todo[1] \in DOMAIN paths THEN path_apply(newValue, paths[todo[1]])
                  ELSE newValue
  BY DEF audio_route_apply_path
<1>3. PathsOK /\ ValuesOK /\ Loaded /\ Applying
  BY <1>1, WhichPhase DEF IInv
<1>4. PathsOK'
  BY <1>1, <1>3, PathsUnchanged
<1>5. Loaded'
  BY <1>1, <1>3 DEF Loaded, parseVars
<1>6. PICK k \in 0 .. Len(asked) : todo = SubSeq(asked, k + 1, Len(asked)) \o <<"update">>
                                   /\ newValue = LaidOver(asked, k)
  BY <1>3 DEF Applying
<1>7. asked \in Selections /\ Len(asked) \in Nat
  BY <1>3, SelectionIs DEF Applying
<1>8. k # Len(asked)
  BY <1>1, <1>6, <1>7, NextOne
<1>9. k + 1 \in 0 .. Len(asked) /\ todo[1] = asked[k + 1]
      /\ Tail(todo) = SubSeq(asked, (k + 1) + 1, Len(asked)) \o <<"update">>
  <2>1. k + 1 \in 1 .. Len(asked) /\ todo[1] = asked[k + 1]
        /\ Tail(todo) = SubSeq(asked, (k + 1) + 1, Len(asked)) \o <<"update">>
    BY <1>6, <1>7, <1>8, NextOne
  <2>2. k + 1 \in 0 .. Len(asked)
    BY <1>7, <2>1
  <2> QED
    BY <2>1, <2>2
<1>10. LaidOver(asked, k + 1) \in [Controls -> Int] /\ newValue' = LaidOver(asked, k + 1)
  <2>1. LaidOver(asked, k) \in [Controls -> Int] /\ resetValue \in [Controls -> Int] /\ k \in Nat
    BY <1>3, <1>6, <1>7 DEF ValuesOK, Loaded
  <2>2. LaidOver(asked, k + 1) \in [Controls -> Int]
        /\ LaidOver(asked, k + 1) = IF asked[k + 1] \in DOMAIN paths
                                    THEN path_apply(LaidOver(asked, k), paths[asked[k + 1]])
                                    ELSE LaidOver(asked, k)
    BY <1>3, <2>1, LaidOverMore
  <2> QED
    BY <1>2, <1>6, <1>9, <2>2
<1>11. overrun' \in BOOLEAN
  <2>1. overrun \in BOOLEAN
    BY <1>3 DEF ValuesOK
  <2>2. CASE todo[1] \in DOMAIN paths
    <3>1. overrun' = (overrun \/ \E i \in DOMAIN paths[todo[1]] : paths[todo[1]][i].ctl = None)
      BY <2>2 DEF audio_route_apply_path
    <3> QED
      BY <2>1, <3>1
  <2>3. CASE todo[1] \notin DOMAIN paths
    BY <2>1, <2>3 DEF audio_route_apply_path
  <2> QED
    BY <2>2, <2>3
<1>12. ValuesOK'
  BY <1>1, <1>3, <1>10, <1>11 DEF ValuesOK, RemembersTheCodec
<1>13. LaidOver(asked, k + 1)' = LaidOver(asked, k + 1)
  BY <1>1 DEF LaidOver, Speakers, Said, parseVars
<1>14. Applying'
  <2>1. asked' = asked /\ todo' = SubSeq(asked, (k + 1) + 1, Len(asked)) \o <<"update">>
    BY <1>1, <1>9
  <2>2. newValue' = LaidOver(asked, k + 1)'
    BY <1>10, <1>13
  <2> QED
    BY <1>7, <1>9, <2>1, <2>2 DEF Applying
<1> QED
  BY <1>3, <1>4, <1>5, <1>12, <1>14 DEF IInv, PhaseOK

LEMMA StepUpdate ==
  ASSUME IInv, update_mixer_state
  PROVE  /\ IInv' /\ Loaded /\ asked \in Selections
         /\ hw' = [c \in Controls |-> IF c \in missed' THEN hw[c]
                                      ELSE LaidOver(asked, Len(asked))[c]]
         /\ missed' \subseteq Unreliable /\ asked' = None
         /\ UNCHANGED <<doc, resetValue>>
<1>1. todo # << >> /\ todo[1] = "update" /\ WriteChanged /\ asked' = None /\ todo' = Tail(todo)
      /\ UNCHANGED <<parseVars, newValue, resetValue, overrun>>
  BY DEF update_mixer_state
<1>2. PathsOK /\ ValuesOK /\ Loaded /\ Applying
  BY <1>1, WhichPhase DEF IInv
<1>3. PICK k \in 0 .. Len(asked) : todo = SubSeq(asked, k + 1, Len(asked)) \o <<"update">>
                                   /\ newValue = LaidOver(asked, k)
  BY <1>2 DEF Applying
<1>4. asked \in Selections
  BY <1>2 DEF Applying
<1>5. k = Len(asked)
  BY <1>1, <1>3, <1>4, NextOne
<1>6. todo' = << >>
  BY <1>1, <1>3, <1>4, <1>5, NextOne
<1>7. /\ hw' = [c \in Controls |-> IF c \in missed' THEN hw[c] ELSE newValue[c]]
      /\ missed' \subseteq Unreliable
  BY <1>1, <1>2, Written
<1>8. PathsOK'
  BY <1>1, <1>2, PathsUnchanged
<1>9. ValuesOK'
  BY <1>1, <1>2, WrittenOK
<1>10. Loaded'
  BY <1>1, <1>2 DEF Loaded, parseVars
<1>11. Idle'
  BY <1>1, <1>6 DEF Idle
<1>12. UNCHANGED <<doc, resetValue>>
  BY <1>1 DEF parseVars
<1> QED
  BY <1>1, <1>2, <1>3, <1>4, <1>5, <1>7, <1>8, <1>9, <1>10, <1>11, <1>12 DEF IInv, PhaseOK

LEMMA StepNone ==
  ASSUME IInv, UNCHANGED vars
  PROVE  IInv'
<1>1. UNCHANGED <<parseVars, oldValue, newValue, resetValue, hw, missed, asked, todo, overrun>>
  BY DEF vars
<1>2. PathsOK'
  BY <1>1, PathsUnchanged DEF IInv
<1>3. ValuesOK'
  BY <1>1 DEF IInv, ValuesOK, RemembersTheCodec
<1>4. doc' = doc /\ at' = at /\ paths' = paths
  BY <1>1 DEF parseVars
<1>5. Loading => Loading'
  BY <1>1, <1>4 DEF Loading, GivenBefore
<1>6. (Loaded => Loaded') /\ (Idle => Idle') /\ (Resetting => Resetting')
  BY <1>1, <1>4 DEF Loaded, Idle, Resetting
<1>7. Applying => Applying'
  <2> SUFFICES ASSUME Applying PROVE Applying'
    OBVIOUS
  <2>1. PICK k \in 0 .. Len(asked) : todo = SubSeq(asked, k + 1, Len(asked)) \o <<"update">>
                                     /\ newValue = LaidOver(asked, k)
    BY DEF Applying
  <2>2. LaidOver(asked, k)' = LaidOver(asked, k)
    BY <1>1, <1>4 DEF LaidOver, Speakers, Said
  <2>3. asked' = asked /\ todo' = todo /\ newValue' = newValue
    BY <1>1
  <2>4. asked \in Selections
    BY DEF Applying
  <2>5. newValue' = LaidOver(asked, k)'
    BY <2>1, <2>2, <2>3
  <2> QED
    BY <2>1, <2>3, <2>4, <2>5 DEF Applying
<1> QED
  BY <1>2, <1>3, <1>5, <1>6, <1>7 DEF IInv, PhaseOK

LEMMA NextIInv == IInv /\ [Next]_vars => IInv'
  BY StepPath, StepCtl, StepOther, StepInit, StepSelect, StepReset, StepApply, StepUpdate,
     StepNone DEF Next

(* The invariant holds of the parse and of every selection after it.       *)
THEOREM Invariance == Spec => []IInv
<1>1. Init => IInv
  BY InitIInv
<1>2. IInv /\ [Next]_vars => IInv'
  BY NextIInv
<1> QED
  BY <1>1, <1>2, PTL DEF Spec

(* Every variable keeps its type, and no path sets a control twice, for    *)
(* every codec and every file with nested tags.                            *)
THEOREM TypeCorrect == Spec => []TypeOK
  BY Invariance, TypeOfIInv, PTL

(* What is remembered of a control is what the codec has, in every state   *)
(* of every sequence of selections, unless its last setting failed:        *)
(* update_mixer_state may leave out what has not changed.                  *)
THEOREM RemembersWhatWasSet == Spec => []RemembersTheCodec
<1>1. IInv => RemembersTheCodec
  BY DEF IInv, ValuesOK
<1> QED
  BY <1>1, Invariance, PTL

------------------------------------------------------------------------------
(* What the parser makes of a document is what the document says, when     *)
(* path_add_path drops nothing that the path lacks.                        *)

(* What is inside a path names paths that began before it.                 *)
LEMMA WordsKnown ==
  ASSUME PathsOK, NEW i \in Passed, NEW j \in Inside(doc, i), j < at, doc[j].tag # "ctl"
  PROVE  doc[j].name \in DOMAIN paths
         /\ \E k \in Passed : k < i /\ doc[k].name = doc[j].name
<1>1. doc[j].tag = "path"
  BY DEF Inside
<1>2. PICK k \in Passed : k < i /\ doc[k].name = doc[j].name
  BY <1>1 DEF PathsOK, NamesOnlyEarlier
<1> QED
  BY <1>2 DEF PathsOK

LEMMA BuiltReadOn ==
  ASSUME PathsOK, Parsing, Built, doc' = doc, at' = at + 1, Passed' = Passed, paths' = paths,
         \A i \in Passed : at \notin Inside(doc, i)
  PROVE  Built'
<1>1. Said' = Said
  BY DEF Said
<1>2. at \in Nat
  BY EventIs
<1>3. ASSUME NEW i \in Passed
      PROVE  {j \in Inside(doc, i) : j < at + 1} = {j \in Inside(doc, i) : j < at}
  <2> SUFFICES ASSUME NEW j \in Inside(doc, i)
               PROVE  j < at + 1 <=> j < at
    OBVIOUS
  <2>1. j \in Nat /\ j # at
    BY DocumentIs DEF PathsOK, Inside
  <2> QED
    BY <1>2, <2>1
<1> SUFFICES ASSUME NEW i \in Passed
             PROVE  Said[doc[i].name] =
                      Together([j \in {j \in Inside(doc, i) : j < at + 1} |-> Word(doc, Said, j)])
  BY <1>1 DEF Built
<1> QED
  BY <1>3 DEF Built

LEMMA BuiltBegins ==
  ASSUME PathsOK, Parsing, Built, doc' = doc, at' = at + 1, Passed' = Passed \cup {at},
         level = 1, Event.name \notin DOMAIN paths,
         paths' = [n \in DOMAIN paths \cup {Event.name} |->
                     IF n = Event.name THEN << >> ELSE paths[n]]
  PROVE  Built'
<1>1. at \in Nat /\ Passed \in SUBSET Nat
  BY EventIs, PassedIs
<1>2. \A n \in DOMAIN paths : Said'[n] = Said[n]
  BY DEF Said
<1>3. Said'[doc[at].name] = Meaning(<< >>)
  BY DEF Said, Event
<1>4. ASSUME NEW i \in Passed
      PROVE  Said'[doc[i].name] =
               Together([j \in {j \in Inside(doc, i) : j < at + 1} |-> Word(doc, Said', j)])
  <2> DEFINE D == {j \in Inside(doc, i) : j < at}
  <2>1. {j \in Inside(doc, i) : j < at + 1} = D
    <3> SUFFICES ASSUME NEW j \in Inside(doc, i)
                 PROVE  j < at + 1 <=> j < at
      OBVIOUS
    <3>1. at \notin Inside(doc, i)
      BY OutsideIs
    <3>2. j \in Nat /\ j # at
      BY <3>1, DocumentIs DEF PathsOK, Inside
    <3> QED
      BY <1>1, <3>2
  <2>2. ASSUME NEW j \in D
        PROVE  Word(doc, Said', j) = Word(doc, Said, j)
    <3>1. CASE doc[j].tag = "ctl"
      BY <3>1 DEF Word
    <3>2. CASE doc[j].tag # "ctl"
      <4>1. doc[j].name \in DOMAIN paths
        BY <3>2, WordsKnown
      <4> QED
        BY <1>2, <3>2, <4>1 DEF Word
    <3> QED
      BY <3>1, <3>2
  <2>3. [j \in D |-> Word(doc, Said', j)] = [j \in D |-> Word(doc, Said, j)]
    BY <2>2
  <2>4. Said[doc[i].name] = Together([j \in D |-> Word(doc, Said, j)])
    BY DEF Built
  <2>5. Said'[doc[i].name] = Said[doc[i].name]
    BY <1>2 DEF PathsOK
  <2> QED
    BY <2>1, <2>3, <2>4, <2>5
<1>5. Said'[doc[at].name] =
        Together([j \in {j \in Inside(doc, at) : j < at + 1} |-> Word(doc, Said', j)])
  <2>1. {j \in Inside(doc, at) : j < at + 1} = {}
    <3> SUFFICES ASSUME NEW j \in Inside(doc, at) PROVE ~ (j < at + 1)
      OBVIOUS
    <3>1. j \in Nat /\ at < j
      BY DocumentIs DEF PathsOK, Inside
    <3> QED
      BY <1>1, <3>1
  <2>2. Together([j \in {} |-> Word(doc, Said', j)]) = [c \in {} |-> 0]
    BY DEF Together
  <2> QED
    BY <1>3, <2>1, <2>2, MeaningOfNone
<1> SUFFICES ASSUME NEW i \in Passed \cup {at}
             PROVE  Said'[doc[i].name] =
                      Together([j \in {j \in Inside(doc, i) : j < at + 1} |-> Word(doc, Said', j)])
  BY DEF Built
<1> QED
  BY <1>4, <1>5

LEMMA BuiltGrows ==
  ASSUME PathsOK, Parsing, Built, doc' = doc, at' = at + 1, Passed' = Passed,
         Event.tag \in {"ctl", "path"}, level > 1,
         Event.tag = "path" => Event.name \in DOMAIN paths,
         NEW t, paths' = [paths EXCEPT ![path] = t],
         Meaning(t) = Over(Meaning(paths[path]), Word(doc, Said, at))
  PROVE  Built'
<1>1. at \in Nat /\ Passed \in SUBSET Nat
  BY EventIs, PassedIs
<1>2. PICK i \in Passed :
        /\ at \in Inside(doc, i) /\ path = doc[i].name /\ path \in DOMAIN paths
        /\ \A k \in Passed : k <= i
        /\ \A k \in Top(doc, "path") : at \in Inside(doc, k) => k = i
        /\ Event.tag = "path" => Event.name # path
  BY CurrentIs
<1>3. Said'[path] = Meaning(t) /\ Said[path] = Meaning(paths[path])
  BY <1>2 DEF Said
<1>4. \A n \in DOMAIN paths : n # path => Said'[n] = Said[n]
  BY DEF Said
<1>5. ASSUME NEW k \in Passed, NEW j \in Inside(doc, k), j < at \/ j = at
      PROVE  Word(doc, Said', j) = Word(doc, Said, j)
  <2>1. CASE doc[j].tag = "ctl"
    BY <2>1 DEF Word
  <2>2. CASE doc[j].tag # "ctl" /\ j < at
    <3>1. doc[j].name \in DOMAIN paths
      BY <2>2, WordsKnown
    <3>2. PICK m \in Passed : m < k /\ doc[m].name = doc[j].name
      BY <2>2, WordsKnown
    <3>3. m # i
      <4>1. m \in Nat /\ k \in Nat /\ i \in Nat /\ k <= i
        BY <1>1, <1>2
      <4> QED
        BY <3>2, <4>1
    <3>4. doc[j].name # path
      BY <1>2, <3>2, <3>3 DEF PathsOK
    <3> QED
      BY <1>4, <2>2, <3>1, <3>4 DEF Word
  <2>3. CASE doc[j].tag # "ctl" /\ j = at
    <3>1. doc[j].name = Event.name /\ doc[j].tag = Event.tag
      BY <2>3 DEF Event
    <3>2. doc[j].name \in DOMAIN paths /\ doc[j].name # path
      BY <1>2, <2>3, <3>1
    <3> QED
      BY <1>4, <2>3, <3>2 DEF Word
  <2> QED
    BY <1>5, <2>1, <2>2, <2>3
<1>6. ASSUME NEW k \in Passed, k # i
      PROVE  Said'[doc[k].name] =
               Together([j \in {j \in Inside(doc, k) : j < at + 1} |-> Word(doc, Said', j)])
  <2> DEFINE D == {j \in Inside(doc, k) : j < at}
  <2>1. {j \in Inside(doc, k) : j < at + 1} = D
    <3> SUFFICES ASSUME NEW j \in Inside(doc, k)
                 PROVE  j < at + 1 <=> j < at
      OBVIOUS
    <3>1. at \notin Inside(doc, k)
      BY <1>2, <1>6 DEF Passed
    <3>2. j \in Nat /\ j # at
      BY <3>1, DocumentIs DEF PathsOK, Inside
    <3> QED
      BY <1>1, <3>2
  <2>2. [j \in D |-> Word(doc, Said', j)] = [j \in D |-> Word(doc, Said, j)]
    BY <1>5
  <2>3. Said[doc[k].name] = Together([j \in D |-> Word(doc, Said, j)])
    BY DEF Built
  <2>4. doc[k].name # path /\ doc[k].name \in DOMAIN paths
    BY <1>2, <1>6 DEF PathsOK
  <2>5. Said'[doc[k].name] = Said[doc[k].name]
    BY <1>4, <2>4
  <2> QED
    BY <2>1, <2>2, <2>3, <2>5
<1>7. Said'[doc[i].name] =
        Together([j \in {j \in Inside(doc, i) : j < at + 1} |-> Word(doc, Said', j)])
  <2> DEFINE D == {j \in Inside(doc, i) : j < at}
             w == [j \in D |-> Word(doc, Said, j)]
             v == Word(doc, Said, at)
  <2>1. {j \in Inside(doc, i) : j < at + 1} = D \cup {at}
    <3>1. ASSUME NEW j \in Inside(doc, i)
          PROVE  j < at + 1 <=> j < at \/ j = at
      <4>1. j \in Nat
        BY DocumentIs DEF PathsOK, Inside
      <4> QED
        BY <1>1, <4>1
    <3> QED
      BY <1>2, <3>1
  <2>2. D \in SUBSET Nat /\ \A j \in D : j < at
    BY DocumentIs DEF PathsOK, Inside
  <2>3. DOMAIN w = D
    OBVIOUS
  <2>4. \A j \in D \cup {at} : Word(doc, Said', j) = IF j = at THEN v ELSE w[j]
    <3>1. \A j \in D : j # at /\ j \in Inside(doc, i) /\ w[j] = Word(doc, Said, j)
      BY <1>1, <2>2
    <3>2. \A j \in D \cup {at} : Word(doc, Said', j) = Word(doc, Said, j)
      BY <1>2, <1>5
    <3> QED
      BY <3>1, <3>2
  <2>5. Together(w) = Said[path]
    BY <1>2 DEF Built
  <2> HIDE DEF D, w, v
  <2> DEFINE u == [j \in D \cup {at} |-> Word(doc, Said', j)]
  <2>6. DOMAIN u = D \cup {at} /\ u[at] = v /\ \A j \in D : u[j] = w[j]
    <3>1. \A j \in D : j # at
      BY <1>1, <2>2
    <3> QED
      BY <2>4, <3>1
  <2> HIDE DEF u
  <2>7. Together(u) = Over(Together(w), v)
    <3>1. DOMAIN w \in SUBSET Nat /\ \A j \in DOMAIN w : j < at
      BY <2>2, <2>3
    <3>2. DOMAIN u = DOMAIN w \cup {at} /\ \A j \in DOMAIN w : u[j] = w[j]
      BY <2>3, <2>6
    <3>3. Together(u) = Over(Together(w), u[at])
      BY <1>1, <3>1, <3>2, TogetherGrows
    <3> QED
      BY <2>6, <3>3
  <2>8. Said'[doc[i].name] = Over(Said[path], v)
    BY <1>2, <1>3 DEF v
  <2>9. Said'[doc[i].name] = Together(u)
    BY <2>5, <2>7, <2>8
  <2> QED
    BY <2>1, <2>9 DEF u
<1> SUFFICES ASSUME NEW k \in Passed
             PROVE  Said'[doc[k].name] =
                      Together([j \in {j \in Inside(doc, k) : j < at + 1} |-> Word(doc, Said', j)])
  BY DEF Built
<1> QED
  BY <1>6, <1>7

LEMMA InitBuilt == Init => Built
<1> SUFFICES ASSUME Init PROVE Built
  OBVIOUS
<1>1. doc \in Seq([tag : {"mixer", "path", "ctl", "end"}, name : STRING, value : Int])
  BY DocumentIs DEF Init
<1>2. Passed = {}
  BY <1>1 DEF Passed, Top, Init
<1> QED
  BY <1>2 DEF Built

LEMMA StepBuilt ==
  ASSUME IInv, DropsNothing, Built, [Next]_vars
  PROVE  Built'
<1>1. PathsOK
  BY DEF IInv
<1>2. CASE start_tag_Path
  <2>1. Parsing /\ Event.tag = "path" /\ doc' = doc /\ at' = at + 1 /\ level' = level + 1
    BY <1>2 DEF start_tag_Path
  <2>2. CASE level = 1 /\ path' = Event.name
    <3>1. Event.name \notin DOMAIN paths
          /\ paths' = [n \in DOMAIN paths \cup {Event.name} |->
                         IF n = Event.name THEN << >> ELSE paths[n]]
      BY <1>2, <2>2 DEF start_tag_Path
    <3>2. Passed' = Passed \cup {at}
      BY <1>1, <2>1, <2>2, PassedGrows
    <3> QED
      BY <1>1, <2>1, <2>2, <3>1, <3>2, BuiltBegins
  <2>3. CASE ~ (level = 1 /\ path' = Event.name)
    <3> DEFINE t == path_add_path(paths[path], paths[Event.name])
    <3>1. level > 1 /\ Event.name \in DOMAIN paths /\ paths' = [paths EXCEPT ![path] = t]
      BY <1>2, <2>3 DEF start_tag_Path
    <3>2. Passed' = Passed
      <4>1. level # 1
        BY <1>1, <3>1 DEF PathsOK
      <4> QED
        BY <1>1, <2>1, <4>1, PassedGrows
    <3>3. path \in DOMAIN paths
      BY <1>1, <2>1, <3>1, CurrentIs
    <3>4. Meaning(t) = Over(Meaning(paths[path]), Meaning(paths[Event.name]))
      <4>1. \A i, j \in DOMAIN paths[Event.name] :
              i < j /\ path_setting_exists(paths[path], paths[Event.name][i].ctl)
                => path_setting_exists(paths[path], paths[Event.name][j].ctl)
        BY <2>1, <3>1 DEF DropsNothing
      <4>2. /\ paths[path] \in Seq(Settings) /\ Distinct(paths[path])
            /\ paths[Event.name] \in Seq(Settings) /\ Distinct(paths[Event.name])
        BY <1>1, <3>1, <3>3 DEF PathsOK
      <4> QED
        BY <4>1, <4>2, MeaningOfJoined
    <3>5. Word(doc, Said, at) = Meaning(paths[Event.name])
      BY <2>1, <3>1 DEF Word, Said, Event
    <3> HIDE DEF t
    <3>6. Meaning(t) = Over(Meaning(paths[path]), Word(doc, Said, at))
      BY <3>4, <3>5
    <3>7. Event.tag \in {"ctl", "path"}
      BY <2>1
    <3> QED
      BY <1>1, <2>1, <3>1, <3>2, <3>6, <3>7, BuiltGrows
  <2> QED
    BY <2>2, <2>3
<1>3. CASE start_tag_Ctl
  <2> DEFINE s == Setting(Event.name, Event.value)
  <2>1. Parsing /\ Event.tag = "ctl" /\ doc' = doc /\ at' = at + 1
    BY <1>3 DEF start_tag_Ctl
  <2>2. Passed' = Passed
    BY <1>1, <2>1, PassedGrows
  <2>3. CASE level = 1 /\ UNCHANGED paths
    <3>1. \A i \in Passed : at \notin Inside(doc, i)
      BY <1>1, <2>1, <2>3, OutsideIs
    <3> QED
      BY <1>1, <2>1, <2>2, <2>3, <3>1, BuiltReadOn
  <2>4. CASE ~ (level = 1 /\ UNCHANGED paths)
    <3> DEFINE t == path_add_setting(paths[path], s)
    <3>1. level > 1 /\ paths' = [paths EXCEPT ![path] = t]
      BY <1>3, <2>4 DEF start_tag_Ctl
    <3>2. path \in DOMAIN paths
      BY <1>1, <2>1, <3>1, CurrentIs
    <3>3. Event.value \in Int
      BY <1>1, <2>1, EventIs
    <3>4. Meaning(t) = Over(Meaning(paths[path]), [c \in {Event.name} \cap Controls |-> Event.value])
      <4>1. paths[path] \in Seq(Settings) /\ Distinct(paths[path])
        BY <1>1, <3>2 DEF PathsOK
      <4> QED
        BY <3>3, <4>1, MeaningOfAdded
    <3>5. Word(doc, Said, at) = [c \in {Event.name} \cap Controls |-> Event.value]
      BY <2>1 DEF Word, Event
    <3> HIDE DEF t
    <3>6. Meaning(t) = Over(Meaning(paths[path]), Word(doc, Said, at))
      BY <3>4, <3>5
    <3>7. Event.tag \in {"ctl", "path"} /\ Event.tag # "path"
      BY <2>1
    <3> QED
      BY <1>1, <2>1, <2>2, <3>1, <3>6, <3>7, BuiltGrows
  <2> QED
    BY <2>3, <2>4
<1>4. CASE start_tag_Other \/ end_tag
  <2>1. Parsing /\ Event.tag \in {"mixer", "end"} /\ doc' = doc /\ at' = at + 1 /\ paths' = paths
    BY <1>4 DEF start_tag_Other, end_tag
  <2>2. Passed' = Passed
    BY <1>1, <2>1, PassedGrows
  <2>3. \A i \in Passed : at \notin Inside(doc, i)
    BY <1>1, <2>1, OutsideIs
  <2> QED
    BY <1>1, <2>1, <2>2, <2>3, BuiltReadOn
<1>5. CASE UNCHANGED parseVars
  <2>1. doc' = doc /\ at' = at /\ paths' = paths
    BY <1>5 DEF parseVars
  <2> QED
    BY <2>1 DEF Built, Passed, Said
<1> QED
  BY <1>2, <1>3, <1>4, <1>5
     DEF Next, vars, audio_route_init, select_devices, reset_mixer_state,
         audio_route_apply_path, update_mixer_state

(* Once the document is read the paths give what it says.                  *)
LEMMA EffectIs ==
  ASSUME PathsOK, Built, at = Len(doc) + 1
  PROVE  PathValues[doc] = Said
<1>1. doc \in Documents
      /\ doc \in Seq([tag : {"mixer", "path", "ctl", "end"}, name : STRING, value : Int])
  BY DocumentIs DEF PathsOK
<1>2. Passed = Top(doc, "path")
  BY <1>1 DEF Passed, Top
<1>3. ASSUME NEW i, NEW j \in Inside(doc, i)
      PROVE  j < at
  BY <1>1 DEF Inside
<1>4. InOrder(doc)
  BY <1>2, <1>3 DEF InOrder, PathsOK, NamesOnlyEarlier
<1>5. DOMAIN Said = PathNames(doc)
  BY <1>2 DEF Said, PathsOK, PathNames
<1>6. ASSUME NEW name \in PathNames(doc)
      PROVE  Said[name] = Together([j \in Inside(doc, Where(doc, name)) |-> Word(doc, Said, j)])
  <2>1. PICK i \in Top(doc, "path") : doc[i].name = name
    BY DEF PathNames
  <2>2. Where(doc, name) = i
    BY <1>4, <2>1, WhereIs
  <2>3. {j \in Inside(doc, i) : j < at} = Inside(doc, i)
    BY <1>3
  <2>4. Said[doc[i].name] = Together([j \in {j \in Inside(doc, i) : j < at} |-> Word(doc, Said, j)])
    BY <1>2 DEF Built
  <2> QED
    BY <2>1, <2>2, <2>3, <2>4
<1>7. Said = [name \in DOMAIN Said |-> Said[name]]
  BY DEF Said
<1> HIDE DEF Said
<1>8. Says(doc, Said)
  BY <1>5, <1>6, <1>7 DEF Says
<1> QED
  BY <1>1, <1>4, <1>8, PathValuesAre

------------------------------------------------------------------------------
(* AudioRoute implements Codec: every step loads, asks or shows, or does   *)
(* nothing that can be seen.                                               *)

LEMMA SelectShows ==
  ASSUME IInv, Built, update_mixer_state
  PROVE  Promised!Select
<1>1. /\ PathsOK /\ Loaded /\ asked \in Selections
      /\ hw' = [c \in Controls |-> IF c \in missed' THEN hw[c]
                                   ELSE LaidOver(asked, Len(asked))[c]]
      /\ missed' \subseteq Unreliable /\ asked' = None /\ UNCHANGED <<doc, resetValue>>
  BY StepUpdate DEF IInv
<1>2. PathValues[doc] = Said
  BY <1>1, EffectIs DEF Loaded
<1>3. asked # None
  BY <1>1, NoneAssumption
<1>4. DOMAIN asked = 1 .. Len(asked)
  BY <1>1, SelectionIs
<1>5. \A c \in Controls : Promised!SetBy(asked, c) = Speakers(asked, Len(asked), c)
  BY <1>2, <1>4 DEF Promised!SetBy, Speakers
<1>6. Promised!Overlay(asked) = LaidOver(asked, Len(asked))
  <2>1. Promised!Overlay(asked) =
          [c \in Controls |->
             IF Promised!SetBy(asked, c) = {} THEN resetValue[c]
             ELSE PathValues[doc][asked[Greatest(Promised!SetBy(asked, c))]][c]]
    BY DEF Promised!Overlay, Greatest
  <2> QED
    BY <1>2, <1>5, <2>1 DEF LaidOver
<1>7. Promised!Show(Promised!Overlay(asked))
  BY <1>1, <1>6 DEF Promised!Show
<1> QED
  BY <1>1, <1>3, <1>7 DEF Promised!Select

LEMMA InitLoads ==
  ASSUME IInv, audio_route_init
  PROVE  Promised!Load
<1>1. /\ Loading /\ at = Len(doc) + 1
      /\ hw' = [c \in Controls |-> IF c \in missed' THEN hw[c] ELSE newValue[c]]
      /\ missed' \subseteq Unreliable /\ resetValue' = hw'
  BY StepInit
<1>2. doc' = doc /\ asked' = asked
  BY DEF audio_route_init, parseVars
<1>3. doc \in Documents /\ doc \in Seq([tag : {"mixer", "path", "ctl", "end"}, name : STRING, value : Int])
  BY DocumentIs DEF IInv, PathsOK
<1>4. \A c : GivenBefore(c) = {i \in Top(doc, "ctl") : doc[i].name = c}
  BY <1>1, <1>3 DEF GivenBefore, Top
<1>5. InitialValues[doc] =
        [c \in {doc[i].name : i \in Top(doc, "ctl")} |->
           doc[Greatest({i \in Top(doc, "ctl") : doc[i].name = c})].value]
  BY <1>3 DEF InitialValues
<1>6. ASSUME NEW c \in Controls
      PROVE  newValue[c] = IF c \in DOMAIN InitialValues[doc] THEN InitialValues[doc][c] ELSE hw[c]
  <2>1. c \in DOMAIN InitialValues[doc] <=> GivenBefore(c) # {}
    BY <1>4, <1>5
  <2>2. GivenBefore(c) # {} => InitialValues[doc][c] = doc[Greatest(GivenBefore(c))].value
    <3>1. c \in DOMAIN InitialValues[doc] =>
            InitialValues[doc][c] = doc[Greatest({i \in Top(doc, "ctl") : doc[i].name = c})].value
      BY <1>5
    <3> QED
      BY <1>4, <2>1, <3>1, Zenon
  <2> QED
    BY <1>1, <2>1, <2>2 DEF Loading
<1> DEFINE values == [c \in Controls |-> IF c \in DOMAIN InitialValues[doc]
                                          THEN InitialValues[doc][c] ELSE hw[c]]
<1>7. \A c \in Controls : newValue[c] = values[c]
  BY <1>6
<1> HIDE DEF values
<1>8. Promised!Show(values)
  BY <1>1, <1>7 DEF Promised!Show
<1> USE DEF values
<1>9. resetValue = None
  BY <1>1 DEF Loading
<1> QED
  BY <1>1, <1>2, <1>8, <1>9 DEF Promised!Load

LEMMA SelectAsks ==
  ASSUME IInv, select_devices
  PROVE  Promised!Ask
<1>1. Loaded /\ Idle /\ asked' \in Selections
  BY StepSelect
<1>2. doc' = doc /\ resetValue' = resetValue /\ hw' = hw /\ missed' = missed
  BY DEF select_devices, parseVars
<1>3. resetValue # None /\ asked = None
  BY <1>1, NoneAssumption DEF Loaded, Idle
<1> QED
  BY <1>1, <1>2, <1>3 DEF Promised!Ask

LEMMA StepPromised ==
  ASSUME IInv, Built, [Next]_vars
  PROVE  [Promised!Next]_<<InitialValues[doc], PathValues[doc], resetValue, asked, hw, missed>>
<1>1. CASE audio_route_init
  BY <1>1, InitLoads DEF Promised!Next
<1>2. CASE select_devices
  BY <1>2, SelectAsks DEF Promised!Next
<1>3. CASE update_mixer_state
  BY <1>3, SelectShows DEF Promised!Next
<1>4. CASE UNCHANGED <<doc, resetValue, asked, hw, missed>>
  BY <1>4
<1> QED
  BY <1>1, <1>2, <1>3, <1>4
     DEF Next, vars, parseVars, start_tag_Path, start_tag_Ctl, start_tag_Other, end_tag,
         reset_mixer_state, audio_route_apply_path

(* The codec shows what was selected last and nothing of what was before,  *)
(* for every codec, every file with nested tags and every sequence of      *)
(* selections, as long as path_add_path drops no setting that the path     *)
(* lacks.                                                                  *)
THEOREM ImplementsCodec == Spec /\ []DropsNothing => ShowsTheSelection
<1>1. Init => Promised!Init
  BY DEF Init, Promised!Init
<1>2. Init => Built
  BY InitBuilt
<1>3. IInv /\ DropsNothing /\ Built /\ [Next]_vars => Built'
  BY StepBuilt
<1>4. IInv /\ Built /\ [Next]_vars
        => [Promised!Next]_<<InitialValues[doc], PathValues[doc], resetValue, asked, hw, missed>>
  BY StepPromised
<1> QED
  BY <1>1, <1>2, <1>3, <1>4, Invariance, PTL DEF Spec, ShowsTheSelection, Promised!Spec

(* A file without paths in paths, as configs/mixer_paths.xml is.           *)
Flat(d) == \A j \in DOMAIN d : d[j].tag = "path" => DepthIn(d)[j] <= 1

(* Of such a file nothing is dropped: the codec shows what was selected    *)
(* last, whatever its controls, values and selections.                     *)
THEOREM FlatFilesAreShown ==
  ASSUME \A d \in Documents : Flat(d)
  PROVE  Spec => ShowsTheSelection
<1>1. IInv => DropsNothing
  <2> SUFFICES ASSUME IInv, Parsing, Event.tag = "path", level > 1 PROVE FALSE
    BY DEF DropsNothing
  <2>1. at \in DOMAIN doc
    BY EventIs DEF IInv
  <2>2. DepthIn(doc)[at] <= 1
    BY <2>1 DEF Flat, IInv, PathsOK, Event
  <2>3. level \in Nat /\ level <= 1
    BY <2>2 DEF IInv, PathsOK
  <2> QED
    BY <2>3
<1> QED
  BY <1>1, Invariance, ImplementsCodec, PTL

------------------------------------------------------------------------------
(* Of a tidy file path_add_path drops nothing.                             *)

Ctls(s) == {s[a].ctl : a \in DOMAIN s}

(* More settings behind, each of a control that was not set.               *)
Extends(s, t) ==
  /\ Len(s) <= Len(t)
  /\ \A a \in DOMAIN s : t[a] = s[a]
  /\ \A b \in DOMAIN t : b \notin DOMAIN s => t[b].ctl \notin Ctls(s)

(* The word inside the path at i that is the first to name the control.    *)
FirstOn(d, i, c) ==
  Least({j \in Inside(d, i) : c \in WordControls(d, PathControls[d], j)})

(* A path sets the controls its words name, in the order in which they     *)
(* name them first.                                                        *)
AsNamed ==
  \A i \in Passed :
    LET s == paths[doc[i].name] IN
    /\ Ctls(s) = NamedBefore(doc, i, at)
    /\ \A a, b \in DOMAIN s : a < b => FirstOn(doc, i, s[a].ctl) <= FirstOn(doc, i, s[b].ctl)

LEMMA AddedExtends ==
  ASSUME NEW s \in Seq(Settings), NEW new \in Settings
  PROVE  /\ Extends(s, path_add_setting(s, new))
         /\ Ctls(path_add_setting(s, new)) = Ctls(s) \cup {new.ctl}
<1> DEFINE t == path_add_setting(s, new)
<1>1. CASE path_setting_exists(s, new.ctl)
  <2>1. t = s
    BY <1>1 DEF path_add_setting
  <2>2. new.ctl \in Ctls(s)
    BY <1>1 DEF path_setting_exists, Ctls
  <2> QED
    BY <2>1, <2>2 DEF Extends
<1>2. CASE ~ path_setting_exists(s, new.ctl)
  <2>1. t = Append(s, new)
    BY <1>2 DEF path_add_setting
  <2>2. new.ctl \notin Ctls(s)
    BY <1>2 DEF path_setting_exists, Ctls
  <2> HIDE DEF t
  <2>3. /\ DOMAIN s = 1 .. Len(s) /\ Len(s) \in Nat
        /\ DOMAIN t = 1 .. Len(s) + 1 /\ Len(t) = Len(s) + 1
        /\ \A a \in DOMAIN s : t[a] = s[a]
        /\ t[Len(s) + 1] = new
    BY <2>1
  <2>4. \A b \in DOMAIN t : b \notin DOMAIN s => b = Len(s) + 1
    BY <2>3
  <2>5. Extends(s, t)
    BY <2>2, <2>3, <2>4 DEF Extends
  <2>6. Len(s) + 1 \in DOMAIN t /\ \A a \in DOMAIN s : a \in DOMAIN t
    BY <2>3
  <2>7. Ctls(t) = Ctls(s) \cup {new.ctl}
    <3>1. ASSUME NEW a \in DOMAIN t
          PROVE  t[a].ctl \in Ctls(s) \cup {new.ctl}
      BY <2>3, <2>4 DEF Ctls
    <3>2. ASSUME NEW a \in DOMAIN s
          PROVE  s[a].ctl \in Ctls(t)
      <4>1. a \in DOMAIN t /\ t[a] = s[a]
        BY <2>3, <2>6
      <4> QED
        BY <4>1 DEF Ctls
    <3>3. new.ctl \in Ctls(t)
      BY <2>3, <2>6 DEF Ctls
    <3> QED
      BY <3>1, <3>2, <3>3 DEF Ctls
  <2> QED
    BY <2>5, <2>7 DEF t
<1> QED
  BY <1>1, <1>2

LEMMA JoinedExtends ==
  ASSUME NEW s \in Seq(Settings), NEW sub \in Seq(Settings),
         \A i, j \in DOMAIN sub : i < j /\ path_setting_exists(s, sub[i].ctl)
           => path_setting_exists(s, sub[j].ctl)
  PROVE  /\ Extends(s, path_add_path(s, sub))
         /\ Ctls(path_add_path(s, sub)) = Ctls(s) \cup Ctls(sub)
<1> DEFINE dup == {i \in DOMAIN sub : path_setting_exists(s, sub[i].ctl)}
           n == IF dup = {} THEN Len(sub) ELSE Least(dup) - 1
           u == SubSeq(sub, 1, n)
           t == path_add_path(s, sub)
<1>1. t = s \o u
  BY DEF path_add_path
<1>2. /\ n \in 0 .. Len(sub)
      /\ \A i \in DOMAIN sub : i <= n => sub[i].ctl \notin Ctls(s)
      /\ \A i \in DOMAIN sub : n < i => sub[i].ctl \in Ctls(s)
  <2>1. \A i \in DOMAIN sub : path_setting_exists(s, sub[i].ctl) <=> sub[i].ctl \in Ctls(s)
    BY DEF path_setting_exists, Ctls
  <2>2. DOMAIN sub = 1 .. Len(sub) /\ Len(sub) \in Nat
    OBVIOUS
  <2>3. CASE dup = {}
    BY <2>1, <2>2, <2>3
  <2>4. CASE dup # {}
    <3> DEFINE l == Least(dup)
    <3>1. dup \in SUBSET Nat
      BY <2>2
    <3>2. l \in dup /\ \A i \in dup : l <= i
      BY <2>4, <3>1, LeastExists
    <3>3. n = l - 1
      BY <2>4
    <3> HIDE DEF l, n
    <3>4. l \in 1 .. Len(sub) /\ path_setting_exists(s, sub[l].ctl)
      BY <2>2, <3>2
    <3>5. ASSUME NEW i \in DOMAIN sub, i <= n
          PROVE  sub[i].ctl \notin Ctls(s)
      <4>1. i \in Nat /\ ~ (l <= i)
        BY <2>2, <3>3, <3>4, <3>5
      <4> QED
        BY <2>1, <3>2, <4>1
    <3>6. ASSUME NEW i \in DOMAIN sub, n < i
          PROVE  sub[i].ctl \in Ctls(s)
      <4>1. l = i \/ l < i
        BY <2>2, <3>3, <3>4, <3>6
      <4>2. path_setting_exists(s, sub[i].ctl)
        BY <2>2, <3>4, <4>1
      <4> QED
        BY <2>1, <4>2
    <3> QED
      BY <2>2, <3>3, <3>4, <3>5, <3>6
  <2> QED
    BY <2>3, <2>4
<1> HIDE DEF n
<1>3. u \in Seq(Settings) /\ Len(u) = n /\ \A i \in 1 .. n : u[i] = sub[i]
  BY <1>2
<1> HIDE DEF u, t
<1>4. /\ DOMAIN s = 1 .. Len(s) /\ Len(s) \in Nat /\ n \in Nat
      /\ DOMAIN sub = 1 .. Len(sub) /\ Len(sub) \in Nat /\ n <= Len(sub)
      /\ DOMAIN t = 1 .. Len(s) + n /\ Len(t) = Len(s) + n
  <2>1. DOMAIN sub = 1 .. Len(sub) /\ Len(sub) \in Nat /\ n \in Nat /\ n <= Len(sub)
    BY <1>2
  <2>2. Len(s \o u) = Len(s) + Len(u) /\ DOMAIN (s \o u) = 1 .. Len(s) + Len(u)
    BY <1>3
  <2>3. Len(t) = Len(s) + n /\ DOMAIN t = 1 .. Len(s) + n
    BY <1>1, <1>3, <2>2
  <2> QED
    BY <2>1, <2>3
<1>5. \A a \in DOMAIN s : t[a] = s[a] /\ a \in DOMAIN t
  BY <1>1, <1>3, <1>4
<1>6. \A i \in 1 .. n : t[Len(s) + i] = sub[i] /\ Len(s) + i \in DOMAIN t
  BY <1>1, <1>3, <1>4
<1>7. ASSUME NEW b \in DOMAIN t, b \notin DOMAIN s
      PROVE  \E i \in 1 .. n : i \in DOMAIN sub /\ i <= n /\ t[b] = sub[i]
  <2>1. b - Len(s) \in 1 .. n /\ b = Len(s) + (b - Len(s))
    BY <1>4, <1>7
  <2>2. b - Len(s) \in DOMAIN sub /\ b - Len(s) <= n
    BY <1>4, <2>1
  <2> QED
    BY <1>6, <2>1, <2>2
<1>8. Extends(s, t)
  <2>1. \A b \in DOMAIN t : b \notin DOMAIN s => t[b].ctl \notin Ctls(s)
    BY <1>2, <1>7
  <2>2. Len(s) <= Len(t)
    BY <1>4
  <2> QED
    BY <1>5, <2>1, <2>2 DEF Extends
<1>9. Ctls(t) = Ctls(s) \cup Ctls(sub)
  <2>1. ASSUME NEW b \in DOMAIN t
        PROVE  t[b].ctl \in Ctls(s) \cup Ctls(sub)
    BY <1>5, <1>7 DEF Ctls
  <2>2. ASSUME NEW a \in DOMAIN s
        PROVE  s[a].ctl \in Ctls(t)
    BY <1>5 DEF Ctls
  <2>3. ASSUME NEW i \in DOMAIN sub
        PROVE  sub[i].ctl \in Ctls(t)
    <3>1. CASE i <= n
      <4>1. i \in 1 .. n
        BY <1>4, <3>1
      <4> QED
        BY <1>6, <4>1 DEF Ctls
    <3>2. CASE ~ (i <= n)
      <4>1. sub[i].ctl \in Ctls(s)
        BY <1>2, <1>4, <3>2
      <4>2. Ctls(s) \subseteq Ctls(t)
        BY <2>2 DEF Ctls
      <4> QED
        BY <4>1, <4>2
    <3> QED
      BY <3>1, <3>2
  <2>4. Ctls(t) \subseteq Ctls(s) \cup Ctls(sub)
    BY <2>1 DEF Ctls
  <2>5. Ctls(s) \subseteq Ctls(t) /\ Ctls(sub) \subseteq Ctls(t)
    BY <2>2, <2>3 DEF Ctls
  <2> QED
    BY <2>4, <2>5
<1> QED
  BY <1>8, <1>9 DEF t

(* One more word.                                                          *)
LEMMA MoreNamed ==
  ASSUME NEW d \in Documents, NEW i, NEW m \in Nat
  PROVE  /\ m \in Inside(d, i) => NamedBefore(d, i, m + 1)
                 = NamedBefore(d, i, m) \cup WordControls(d, PathControls[d], m)
         /\ m \notin Inside(d, i) => NamedBefore(d, i, m + 1) = NamedBefore(d, i, m)
<1>1. \A j \in Inside(d, i) : j < m + 1 <=> j < m \/ j = m
  <2> TAKE j \in Inside(d, i)
  <2>1. j \in Nat
    BY DocumentIs DEF Inside
  <2> QED
    BY <2>1
<1>2. CASE m \in Inside(d, i)
  <2>1. {j \in Inside(d, i) : j < m + 1} = {j \in Inside(d, i) : j < m} \cup {m}
    BY <1>1, <1>2
  <2> QED
    BY <1>2, <2>1 DEF NamedBefore
<1>3. CASE m \notin Inside(d, i)
  <2>1. {j \in Inside(d, i) : j < m + 1} = {j \in Inside(d, i) : j < m}
    BY <1>1, <1>3
  <2> QED
    BY <1>3, <2>1 DEF NamedBefore
<1> QED
  BY <1>2, <1>3

LEMMA FirstOnIs ==
  ASSUME NEW d \in Documents, NEW i, NEW m \in Nat, NEW c
  PROVE  /\ c \in NamedBefore(d, i, m)
              => /\ FirstOn(d, i, c) \in Inside(d, i) /\ FirstOn(d, i, c) < m
                 /\ c \in WordControls(d, PathControls[d], FirstOn(d, i, c))
         /\ m \in Inside(d, i) =>
              (c \in WordControls(d, PathControls[d], m) \ NamedBefore(d, i, m)
                 => FirstOn(d, i, c) = m)
<1> DEFINE S == {j \in Inside(d, i) : c \in WordControls(d, PathControls[d], j)}
<1>1. S \in SUBSET Nat
  BY DocumentIs DEF Inside
<1>2. ASSUME c \in NamedBefore(d, i, m)
      PROVE  Least(S) \in S /\ Least(S) < m
  <2>1. PICK j \in S : j < m
    BY <1>2 DEF NamedBefore
  <2> HIDE DEF S
  <2>2. Least(S) \in S /\ Least(S) <= j
    BY <1>1, <2>1, LeastExists
  <2>3. Least(S) \in Nat /\ j \in Nat
    BY <1>1, <2>1, <2>2
  <2> QED
    BY <2>1, <2>2, <2>3
<1>3. ASSUME c \notin NamedBefore(d, i, m), m \in Inside(d, i),
             c \in WordControls(d, PathControls[d], m)
      PROVE  Least(S) = m
  <2>1. m \in S
    BY <1>3
  <2>2. \A j \in S : ~ (j < m)
    BY <1>3 DEF NamedBefore
  <2> HIDE DEF S
  <2>3. \A j \in S : m <= j
    BY <1>1, <2>2
  <2> QED
    BY <1>1, <2>1, <2>3, LeastIs
<1>4. FirstOn(d, i, c) = Least(S)
  BY DEF FirstOn
<1>5. \A j \in S : j \in Inside(d, i) /\ c \in WordControls(d, PathControls[d], j)
  OBVIOUS
<1> HIDE DEF S
<1> QED
  BY <1>2, <1>3, <1>4, <1>5

(* A path before another one is read to its end.                           *)
LEMMA CompleteIs ==
  ASSUME PathsOK, NEW h \in Passed, NEW i \in Passed, h < i
  PROVE  /\ \A j \in Inside(doc, h) : j < i
         /\ NamedBefore(doc, h, at) = NamedBefore(doc, h, Len(doc) + 1)
<1>1. doc \in Seq([tag : {"mixer", "path", "ctl", "end"}, name : STRING, value : Int])
  BY DocumentIs DEF PathsOK
<1>2. /\ h \in Top(doc, "path") /\ i \in Top(doc, "path") /\ h \in Nat /\ i \in Nat
      /\ i < at /\ at \in Nat
  BY PassedIs DEF Passed
<1>3. ASSUME NEW j \in Inside(doc, h)
      PROVE  j < i /\ j < at /\ j < Len(doc) + 1
  <2>1. j \in Nat /\ j <= Len(doc) /\ Len(doc) \in Nat /\ h < j
    BY <1>1 DEF Inside
  <2>2. CASE i < j
    <3>1. i <= h
      BY <1>1, <1>2, <2>2, InsideTheLast
    <3> QED
      BY <1>2, <3>1
  <2>3. CASE i = j
    <3>1. j \in h + 1 .. j
      BY <1>2, <2>1
    <3>2. DepthIn(doc)[j] > 1
      BY <3>1 DEF Inside
    <3>3. DepthIn(doc)[j] = 1
      BY <1>2, <2>3 DEF Top
    <3> QED
      BY <3>2, <3>3
  <2> QED
    BY <1>2, <2>1, <2>2, <2>3
<1> QED
  BY <1>3 DEF NamedBefore

LEMMA AsNamedReadOn ==
  ASSUME PathsOK, Parsing, AsNamed, doc' = doc, at' = at + 1, Passed' = Passed, paths' = paths,
         \A i \in Passed : at \notin Inside(doc, i)
  PROVE  AsNamed'
<1>1. at \in Nat /\ doc \in Documents
  BY EventIs DEF PathsOK
<1>2. \A i \in Passed : NamedBefore(doc, i, at + 1) = NamedBefore(doc, i, at)
  BY <1>1, MoreNamed
<1> QED
  BY <1>2 DEF AsNamed

LEMMA AsNamedBegins ==
  ASSUME PathsOK, Parsing, AsNamed, doc' = doc, at' = at + 1, Passed' = Passed \cup {at},
         level = 1, paths'[Event.name] = << >>, \A n \in DOMAIN paths : paths'[n] = paths[n]
  PROVE  AsNamed'
<1>1. at \in Nat /\ doc \in Documents /\ Passed \in SUBSET Nat
  BY EventIs, PassedIs DEF PathsOK
<1>2. \A i \in Passed : at \notin Inside(doc, i)
  BY OutsideIs
<1>3. \A i \in Passed : NamedBefore(doc, i, at + 1) = NamedBefore(doc, i, at)
  BY <1>1, <1>2, MoreNamed
<1>4. \A i \in Passed : paths'[doc[i].name] = paths[doc[i].name]
  BY DEF PathsOK
<1>5. NamedBefore(doc, at, at + 1) = {}
  <2> SUFFICES ASSUME NEW j \in Inside(doc, at) PROVE ~ (j < at + 1)
    BY DEF NamedBefore
  <2>1. j \in Nat /\ at < j
    BY <1>1, DocumentIs DEF Inside
  <2> QED
    BY <1>1, <2>1
<1>6. paths'[doc[at].name] = << >>
  BY DEF Event
<1>7. Ctls(<< >>) = {} /\ DOMAIN << >> = {}
  BY DEF Ctls
<1> SUFFICES ASSUME NEW i \in Passed'
             PROVE  /\ Ctls(paths'[doc[i].name]) = NamedBefore(doc, i, at + 1)
                    /\ \A a, b \in DOMAIN paths'[doc[i].name] : a < b =>
                         FirstOn(doc, i, paths'[doc[i].name][a].ctl)
                           <= FirstOn(doc, i, paths'[doc[i].name][b].ctl)
  BY DEF AsNamed
<1>8. CASE i \in Passed
  BY <1>3, <1>4, <1>8 DEF AsNamed
<1>9. CASE i = at
  BY <1>5, <1>6, <1>7, <1>9
<1> QED
  BY <1>8, <1>9

(* A setting that is new to the path is of a control that the word being   *)
(* read is the first to name.                                              *)
LEMMA AsNamedGrows ==
  ASSUME PathsOK, Parsing, AsNamed, doc' = doc, at' = at + 1, Passed' = Passed,
         Event.tag \in {"ctl", "path"}, level > 1,
         NEW t \in Seq(Settings), paths' = [paths EXCEPT ![path] = t],
         Extends(paths[path], t),
         Ctls(t) = Ctls(paths[path]) \cup WordControls(doc, PathControls[doc], at)
  PROVE  AsNamed'
<1>1. at \in Nat /\ doc \in Documents
  BY EventIs DEF PathsOK
<1>2. PICK i \in Passed :
        /\ at \in Inside(doc, i) /\ path = doc[i].name /\ path \in DOMAIN paths
        /\ \A k \in Top(doc, "path") : at \in Inside(doc, k) => k = i
  BY CurrentIs
<1> DEFINE s == paths[path]
           word == WordControls(doc, PathControls[doc], at)
<1>3. paths'[doc[i].name] = t
  BY <1>2
<1>4. s \in Seq(Settings)
  BY <1>2 DEF PathsOK
<1>5. /\ Ctls(s) = NamedBefore(doc, i, at)
      /\ \A a, b \in DOMAIN s : a < b => FirstOn(doc, i, s[a].ctl) <= FirstOn(doc, i, s[b].ctl)
  BY <1>2 DEF AsNamed
<1>6. Ctls(t) = NamedBefore(doc, i, at + 1)
  BY <1>1, <1>2, <1>5, MoreNamed
<1> HIDE DEF s, word
<1>7. ASSUME NEW a \in DOMAIN t, NEW b \in DOMAIN t, a < b
      PROVE  FirstOn(doc, i, t[a].ctl) <= FirstOn(doc, i, t[b].ctl)
  <2>1. /\ DOMAIN s = 1 .. Len(s) /\ Len(s) \in Nat /\ DOMAIN t = 1 .. Len(t)
        /\ \A k \in DOMAIN s : t[k] = s[k]
        /\ \A k \in DOMAIN t : k \notin DOMAIN s => t[k].ctl \notin Ctls(s)
    BY <1>4 DEF Extends, s
  <2>2. \A k \in DOMAIN s : s[k].ctl \in NamedBefore(doc, i, at)
    BY <1>5 DEF Ctls
  <2>3. \A k \in DOMAIN s : FirstOn(doc, i, s[k].ctl) \in Nat /\ FirstOn(doc, i, s[k].ctl) < at
    <3> TAKE k \in DOMAIN s
    <3>1. FirstOn(doc, i, s[k].ctl) \in Inside(doc, i) /\ FirstOn(doc, i, s[k].ctl) < at
      BY <1>1, <2>2, FirstOnIs
    <3> QED
      BY <1>1, <3>1, DocumentIs DEF Inside
  <2>4. \A k \in DOMAIN t : k \notin DOMAIN s => FirstOn(doc, i, t[k].ctl) = at
    <3> SUFFICES ASSUME NEW k \in DOMAIN t, k \notin DOMAIN s
                 PROVE  FirstOn(doc, i, t[k].ctl) = at
      OBVIOUS
    <3>1. t[k].ctl \in Ctls(t) /\ t[k].ctl \notin Ctls(s)
      BY <2>1 DEF Ctls
    <3>2. t[k].ctl \in word \ NamedBefore(doc, i, at)
      BY <1>5, <3>1 DEF word, s
    <3> QED
      BY <1>1, <1>2, <3>2, FirstOnIs DEF word
  <2>5. CASE b \in DOMAIN s
    <3>1. a \in DOMAIN s
      BY <1>7, <2>1, <2>5
    <3> QED
      BY <1>5, <1>7, <2>1, <2>5, <3>1
  <2>6. CASE b \notin DOMAIN s
    <3>1. FirstOn(doc, i, t[b].ctl) = at
      BY <2>4, <2>6
    <3>2. CASE a \in DOMAIN s
      <4>1. t[a] = s[a] /\ FirstOn(doc, i, s[a].ctl) \in Nat /\ FirstOn(doc, i, s[a].ctl) < at
        BY <2>1, <2>3, <3>2
      <4> QED
        BY <1>1, <3>1, <4>1
    <3>3. CASE a \notin DOMAIN s
      <4>1. FirstOn(doc, i, t[a].ctl) = at
        BY <2>4, <3>3
      <4> QED
        BY <1>1, <3>1, <4>1
    <3> QED
      BY <3>2, <3>3
  <2> QED
    BY <2>5, <2>6
<1> SUFFICES ASSUME NEW k \in Passed
             PROVE  /\ Ctls(paths'[doc[k].name]) = NamedBefore(doc, k, at + 1)
                    /\ \A a, b \in DOMAIN paths'[doc[k].name] : a < b =>
                         FirstOn(doc, k, paths'[doc[k].name][a].ctl)
                           <= FirstOn(doc, k, paths'[doc[k].name][b].ctl)
  BY DEF AsNamed
<1>8. CASE k = i
  BY <1>3, <1>6, <1>7, <1>8
<1>9. CASE k # i
  <2>1. at \notin Inside(doc, k)
    BY <1>2, <1>9 DEF Passed
  <2>2. NamedBefore(doc, k, at + 1) = NamedBefore(doc, k, at)
    BY <1>1, <2>1, MoreNamed
  <2>3. doc[k].name # path
    BY <1>2, <1>9 DEF PathsOK
  <2>4. paths'[doc[k].name] = paths[doc[k].name]
    BY <2>3 DEF PathsOK
  <2> QED
    BY <2>2, <2>4 DEF AsNamed
<1> QED
  BY <1>8, <1>9

(* A path that another one names is read to its end, and the word sets the *)
(* controls it has.                                                        *)
LEMMA SubPathIs ==
  ASSUME PathsOK, AsNamed, Tidy(doc), Parsing, Event.tag = "path", level > 1,
         Event.name \in DOMAIN paths
  PROVE  \E i, h \in Passed :
           /\ at \in Inside(doc, i) /\ path = doc[i].name /\ path \in DOMAIN paths
           /\ Event.name = doc[h].name
           /\ Ctls(paths[Event.name]) = WordControls(doc, PathControls[doc], at)
<1>1. PICK i \in Passed :
        /\ at \in Inside(doc, i) /\ path = doc[i].name /\ path \in DOMAIN paths
        /\ \A k \in Passed : k <= i
        /\ Event.name # path
  BY CurrentIs
<1>2. PICK h \in Passed : doc[h].name = Event.name
  BY DEF PathsOK
<1>3. h < i
  <2>1. h # i /\ h <= i /\ h \in Nat /\ i \in Nat
    BY <1>1, <1>2, PassedIs
  <2> QED
    BY <2>1
<1>4. Ctls(paths[Event.name]) = NamedBefore(doc, h, Len(doc) + 1)
  BY <1>2, <1>3, CompleteIs DEF AsNamed
<1>5. NamedBefore(doc, h, Len(doc) + 1) = PathControls[doc][Event.name]
  BY <1>2 DEF Tidy, Passed
<1>6. WordControls(doc, PathControls[doc], at) = PathControls[doc][Event.name]
  BY DEF WordControls, Event
<1> QED
  BY <1>1, <1>2, <1>4, <1>5, <1>6

LEMMA TidyDropsNothing ==
  ASSUME PathsOK, AsNamed, Tidy(doc)
  PROVE  DropsNothing
<1> SUFFICES ASSUME Parsing, Event.tag = "path", level > 1, Event.name \in DOMAIN paths,
                    NEW a \in DOMAIN paths[Event.name], NEW b \in DOMAIN paths[Event.name],
                    a < b, path_setting_exists(paths[path], paths[Event.name][a].ctl)
             PROVE  path_setting_exists(paths[path], paths[Event.name][b].ctl)
  BY DEF DropsNothing
<1> DEFINE sub == paths[Event.name]
<1>1. PICK i \in Passed, h \in Passed :
        at \in Inside(doc, i) /\ path = doc[i].name /\ Event.name = doc[h].name
  BY SubPathIs
<1>2. /\ i \in Top(doc, "path") /\ h \in Top(doc, "path")
      /\ doc[at].tag = "path" /\ doc[at].name = doc[h].name
  BY <1>1 DEF Passed, Event
<1>3. at \in Nat /\ doc \in Documents
  BY EventIs DEF PathsOK
<1>4. \A c : path_setting_exists(paths[path], c) <=> c \in NamedBefore(doc, i, at)
  <2>1. Ctls(paths[path]) = NamedBefore(doc, i, at)
    BY <1>1 DEF AsNamed
  <2> QED
    BY <2>1 DEF Ctls, path_setting_exists
<1>5. /\ Ctls(sub) = NamedBefore(doc, h, at)
      /\ FirstOn(doc, h, sub[a].ctl) <= FirstOn(doc, h, sub[b].ctl)
  BY <1>1 DEF AsNamed
<1> DEFINE u == FirstOn(doc, h, sub[a].ctl)
           v == FirstOn(doc, h, sub[b].ctl)
<1>6. sub[a].ctl \in NamedBefore(doc, h, at) /\ sub[b].ctl \in NamedBefore(doc, h, at)
  BY <1>5 DEF Ctls
<1>7. /\ u \in Inside(doc, h) /\ sub[a].ctl \in WordControls(doc, PathControls[doc], u)
      /\ v \in Inside(doc, h) /\ sub[b].ctl \in WordControls(doc, PathControls[doc], v)
  BY <1>3, <1>6, FirstOnIs
<1>8. sub[a].ctl \in NamedBefore(doc, i, at) /\ u <= v
  BY <1>4, <1>5
<1> HIDE DEF u, v, sub
<1>9. WordControls(doc, PathControls[doc], v) \subseteq NamedBefore(doc, i, at)
  BY <1>1, <1>2, <1>7, <1>8 DEF Tidy
<1>10. sub[b].ctl \in NamedBefore(doc, i, at)
  BY <1>7, <1>9
<1> QED
  BY <1>4, <1>10 DEF sub

LEMMA InitAsNamed == Init => AsNamed
<1> SUFFICES ASSUME Init PROVE AsNamed
  OBVIOUS
<1>1. doc \in Seq([tag : {"mixer", "path", "ctl", "end"}, name : STRING, value : Int])
  BY DocumentIs DEF Init
<1>2. Passed = {}
  BY <1>1 DEF Passed, Top, Init
<1> QED
  BY <1>2 DEF AsNamed

LEMMA StepAsNamed ==
  ASSUME IInv, AsNamed, Tidy(doc), [Next]_vars
  PROVE  AsNamed'
<1>1. PathsOK
  BY DEF IInv
<1>2. CASE start_tag_Path
  <2>1. Parsing /\ Event.tag = "path" /\ doc' = doc /\ at' = at + 1
    BY <1>2 DEF start_tag_Path
  <2>2. CASE level = 1 /\ path' = Event.name
    <3>1. Event.name \notin DOMAIN paths
          /\ paths' = [n \in DOMAIN paths \cup {Event.name} |->
                         IF n = Event.name THEN << >> ELSE paths[n]]
      BY <1>2, <2>2 DEF start_tag_Path
    <3>2. paths'[Event.name] = << >> /\ \A n \in DOMAIN paths : paths'[n] = paths[n]
      BY <3>1
    <3>3. Passed' = Passed \cup {at}
      BY <1>1, <2>1, <2>2, PassedGrows
    <3> QED
      BY <1>1, <2>1, <2>2, <3>2, <3>3, AsNamedBegins
  <2>3. CASE ~ (level = 1 /\ path' = Event.name)
    <3> DEFINE t == path_add_path(paths[path], paths[Event.name])
    <3>1. level > 1 /\ Event.name \in DOMAIN paths /\ paths' = [paths EXCEPT ![path] = t]
      BY <1>2, <2>3 DEF start_tag_Path
    <3>2. Passed' = Passed
      <4>1. level # 1
        BY <1>1, <3>1 DEF PathsOK
      <4> QED
        BY <1>1, <2>1, <4>1, PassedGrows
    <3>3. path \in DOMAIN paths
          /\ Ctls(paths[Event.name]) = WordControls(doc, PathControls[doc], at)
      BY <1>1, <2>1, <3>1, SubPathIs
    <3>4. \A i, j \in DOMAIN paths[Event.name] :
            i < j /\ path_setting_exists(paths[path], paths[Event.name][i].ctl)
              => path_setting_exists(paths[path], paths[Event.name][j].ctl)
      BY <1>1, <2>1, <3>1, TidyDropsNothing DEF DropsNothing
    <3>5. /\ paths[path] \in Seq(Settings) /\ Distinct(paths[path])
          /\ paths[Event.name] \in Seq(Settings) /\ Distinct(paths[Event.name])
      BY <1>1, <3>1, <3>3 DEF PathsOK
    <3>6. t \in Seq(Settings)
      BY <3>5, MeaningOfJoined
    <3>7. Extends(paths[path], t) /\ Ctls(t) = Ctls(paths[path]) \cup Ctls(paths[Event.name])
      BY <3>4, <3>5, JoinedExtends
    <3> HIDE DEF t
    <3>8. Ctls(t) = Ctls(paths[path]) \cup WordControls(doc, PathControls[doc], at)
      BY <3>3, <3>7
    <3>9. Event.tag \in {"ctl", "path"}
      BY <2>1
    <3> QED
      BY <1>1, <2>1, <3>1, <3>2, <3>6, <3>7, <3>8, <3>9, AsNamedGrows
  <2> QED
    BY <2>2, <2>3
<1>3. CASE start_tag_Ctl
  <2> DEFINE new == Setting(Event.name, Event.value)
  <2>1. Parsing /\ Event.tag = "ctl" /\ doc' = doc /\ at' = at + 1
    BY <1>3 DEF start_tag_Ctl
  <2>2. Passed' = Passed
    BY <1>1, <2>1, PassedGrows
  <2>3. CASE level = 1 /\ UNCHANGED paths
    <3>1. \A i \in Passed : at \notin Inside(doc, i)
      BY <1>1, <2>1, <2>3, OutsideIs
    <3> QED
      BY <1>1, <2>1, <2>2, <2>3, <3>1, AsNamedReadOn
  <2>4. CASE ~ (level = 1 /\ UNCHANGED paths)
    <3> DEFINE t == path_add_setting(paths[path], new)
    <3>1. level > 1 /\ paths' = [paths EXCEPT ![path] = t]
      BY <1>3, <2>4 DEF start_tag_Ctl
    <3>2. path \in DOMAIN paths
      BY <1>1, <2>1, <3>1, CurrentIs
    <3>3. Event.value \in Int
      BY <1>1, <2>1, EventIs
    <3>4. paths[path] \in Seq(Settings) /\ Distinct(paths[path])
      BY <1>1, <3>2 DEF PathsOK
    <3>5. new \in Settings /\ t \in Seq(Settings)
      BY <3>3, <3>4, SettingType, MeaningOfAdded
    <3>6. {new.ctl} = WordControls(doc, PathControls[doc], at)
      BY <2>1 DEF WordControls, Setting, Event
    <3> HIDE DEF new
    <3>7. Extends(paths[path], t) /\ Ctls(t) = Ctls(paths[path]) \cup {new.ctl}
      BY <3>4, <3>5, AddedExtends
    <3> HIDE DEF t
    <3>8. Ctls(t) = Ctls(paths[path]) \cup WordControls(doc, PathControls[doc], at)
      BY <3>6, <3>7
    <3>9. Event.tag \in {"ctl", "path"}
      BY <2>1
    <3> QED
      BY <1>1, <2>1, <2>2, <3>1, <3>5, <3>7, <3>8, <3>9, AsNamedGrows
  <2> QED
    BY <2>3, <2>4
<1>4. CASE start_tag_Other \/ end_tag
  <2>1. Parsing /\ Event.tag \in {"mixer", "end"} /\ doc' = doc /\ at' = at + 1 /\ paths' = paths
    BY <1>4 DEF start_tag_Other, end_tag
  <2>2. Passed' = Passed
    BY <1>1, <2>1, PassedGrows
  <2>3. \A i \in Passed : at \notin Inside(doc, i)
    BY <1>1, <2>1, OutsideIs
  <2> QED
    BY <1>1, <2>1, <2>2, <2>3, AsNamedReadOn
<1>5. CASE UNCHANGED parseVars
  <2>1. doc' = doc /\ at' = at /\ paths' = paths
    BY <1>5 DEF parseVars
  <2> QED
    BY <2>1 DEF AsNamed, Passed
<1> QED
  BY <1>2, <1>3, <1>4, <1>5
     DEF Next, vars, audio_route_init, select_devices, reset_mixer_state,
         audio_route_apply_path, update_mixer_state

(* path_add_path, which gives up a sub-path at the first control that the  *)
(* path has already, drops no control the path lacks: for every codec and  *)
(* every tidy file, which the shipped one and the nested one of the run    *)
(* are.                                                                    *)
THEOREM TidyFilesLoseNothing ==
  ASSUME \A d \in Documents : Tidy(d)
  PROVE  Spec => []DropsNothing
<1>1. IInv => Tidy(doc)
  BY DEF IInv, PathsOK
<1>2. Init => AsNamed
  BY InitAsNamed
<1>3. IInv /\ AsNamed /\ [Next]_vars => AsNamed'
  BY <1>1, StepAsNamed
<1>4. IInv /\ AsNamed => DropsNothing
  BY <1>1, TidyDropsNothing DEF IInv
<1> QED
  BY <1>2, <1>3, <1>4, Invariance, PTL DEF Spec

(* The codec shows what was selected last for every tidy file, paths in    *)
(* paths included: the hypothesis is on the text of the file, and none on  *)
(* the run is left.                                                        *)
THEOREM TidyFilesAreShown ==
  ASSUME \A d \in Documents : Tidy(d)
  PROVE  Spec => ShowsTheSelection
  BY TidyFilesLoseNothing, ImplementsCodec, PTL

------------------------------------------------------------------------------
(* What is stored beyond mixer_state.                                      *)

(* Every control the file names is one of the codec.                       *)
Names(d) == {d[i].name : i \in {i \in DOMAIN d : d[i].tag = "ctl"}}

InTheList ==
  /\ ~ overrun
  /\ \A n \in DOMAIN paths : \A k \in DOMAIN paths[n] : paths[n][k].ctl \in Controls

LEMMA StepInTheList ==
  ASSUME \A d \in Documents : Names(d) \subseteq Controls,
         IInv, InTheList, [Next]_vars
  PROVE  InTheList'
<1>1. PathsOK
  BY DEF IInv
<1>2. CASE start_tag_Path
  <2>1. Parsing /\ Event.tag = "path" /\ overrun' = overrun
    BY <1>2 DEF start_tag_Path
  <2>2. CASE level = 1 /\ path' = Event.name
    BY <1>2, <2>1, <2>2 DEF start_tag_Path, InTheList
  <2>3. CASE ~ (level = 1 /\ path' = Event.name)
    <3> DEFINE s == paths[path]
               sub == paths[Event.name]
               t == path_add_path(s, sub)
    <3>1. level > 1 /\ Event.name \in DOMAIN paths /\ paths' = [paths EXCEPT ![path] = t]
      BY <1>2, <2>3 DEF start_tag_Path
    <3>2. path \in DOMAIN paths
      BY <1>1, <2>1, <3>1, CurrentIs
    <3>3. s \in Seq(Settings) /\ sub \in Seq(Settings)
      BY <1>1, <3>1, <3>2 DEF PathsOK
    <3>4. \A k \in DOMAIN s : s[k].ctl \in Controls
      BY <3>2 DEF InTheList
    <3>5. \A k \in DOMAIN sub : sub[k].ctl \in Controls
      BY <3>1 DEF InTheList
    <3> HIDE DEF s, sub
    <3>6. \A k \in DOMAIN t : t[k].ctl \in Controls
      BY <3>3, <3>4, <3>5, JoinedFrom
    <3> HIDE DEF t
    <3> QED
      BY <2>1, <3>1, <3>6 DEF InTheList
  <2> QED
    BY <2>2, <2>3
<1>3. CASE start_tag_Ctl
  <2> DEFINE new == Setting(Event.name, Event.value)
  <2>1. Parsing /\ Event.tag = "ctl"
    BY <1>3 DEF start_tag_Ctl
  <2>2. Event.name \in Controls
    <3>1. at \in DOMAIN doc /\ doc \in Documents
      BY <1>1, <2>1, EventIs DEF PathsOK
    <3> QED
      BY <2>1, <3>1 DEF Names, Event
  <2>3. new = [ctl |-> Event.name, value |-> Event.value] /\ new.ctl # None /\ new.ctl \in Controls
    BY <2>2, NoneAssumption DEF Setting
  <2> HIDE DEF new
  <2>4. CASE level = 1 /\ UNCHANGED paths
    <3>1. overrun' = (overrun \/ new.ctl = None)
      BY <1>1, <1>3, <2>4 DEF start_tag_Ctl, PathsOK, new
    <3> QED
      BY <2>3, <2>4, <3>1 DEF InTheList
  <2>5. CASE ~ (level = 1 /\ UNCHANGED paths)
    <3> DEFINE s == paths[path]
               t == path_add_setting(s, new)
    <3>1. level > 1 /\ overrun' = overrun /\ paths' = [paths EXCEPT ![path] = t]
      BY <1>3, <2>5 DEF start_tag_Ctl, new
    <3>2. path \in DOMAIN paths
      BY <1>1, <2>1, <3>1, CurrentIs
    <3>3. s \in Seq(Settings) /\ \A k \in DOMAIN s : s[k].ctl \in Controls
      BY <1>1, <3>2 DEF PathsOK, InTheList
    <3> HIDE DEF s
    <3>4. \A k \in DOMAIN t : t[k].ctl \in Controls
      BY <2>3, <3>3 DEF path_add_setting
    <3> HIDE DEF t
    <3> QED
      BY <3>1, <3>4 DEF InTheList
  <2> QED
    BY <2>4, <2>5
<1>4. CASE audio_route_apply_path
  <2>1. paths' = paths
    BY <1>4 DEF audio_route_apply_path, parseVars
  <2>2. overrun' = overrun
    <3>1. CASE todo[1] \in DOMAIN paths
      <4>1. \A i \in DOMAIN paths[todo[1]] : paths[todo[1]][i].ctl # None
        BY <3>1, NoneAssumption DEF InTheList
      <4>2. overrun' = (overrun \/ \E i \in DOMAIN paths[todo[1]] : paths[todo[1]][i].ctl = None)
        BY <1>4, <3>1 DEF audio_route_apply_path
      <4>3. overrun \in BOOLEAN
        BY DEF IInv, ValuesOK
      <4> QED
        BY <4>1, <4>2, <4>3
    <3>2. CASE todo[1] \notin DOMAIN paths
      BY <1>4, <3>2 DEF audio_route_apply_path
    <3> QED
      BY <3>1, <3>2
  <2> QED
    BY <2>1, <2>2 DEF InTheList
<1>5. CASE UNCHANGED <<paths, overrun>>
  BY <1>5 DEF InTheList
<1> QED
  BY <1>2, <1>3, <1>4, <1>5
     DEF Next, vars, parseVars, start_tag_Other, end_tag, audio_route_init, select_devices,
         reset_mixer_state, update_mixer_state

(* A value is stored beyond mixer_state only when the file names a control *)
(* that the codec does not have.                                           *)
THEOREM KnownControlsStoreInTheList ==
  ASSUME \A d \in Documents : Names(d) \subseteq Controls
  PROVE  Spec => []StoresInTheList
<1>1. Init => InTheList
  BY DEF Init, InTheList
<1>2. IInv /\ InTheList /\ [Next]_vars => InTheList'
  BY StepInTheList
<1>3. InTheList => StoresInTheList
  BY DEF InTheList, StoresInTheList
<1> QED
  BY <1>1, <1>2, <1>3, Invariance, PTL DEF Spec
=============================================================================
