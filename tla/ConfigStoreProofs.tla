-------------------------- MODULE ConfigStoreProofs --------------------------
(***************************************************************************)
(* Proofs about ConfigStore, for any pods, clients and configurations: a   *)
(* pod's environment follows its memory, and so does the file the memory   *)
(* of the pod that saved last; what is stored are passwords and never      *)
(* masks; a scan has its own credentials or stored ones; and saving an     *)
(* edit of what is shown masked does, entry by entry, what the same edit   *)
(* of the real configuration does, as far as a mask can tell the entries   *)
(* apart.                                                                  *)
(***************************************************************************)
EXTENDS ConfigStore, FiniteSetTheorems, SequenceTheorems, WellFoundedInduction, TLAPS

Busy(c, p) == InSave(c, p) \/ Applying(c, p)

\* The part of TypeOK that does not look into configurations.
Shape ==
    /\ up \subseteq Pods
    /\ DOMAIN config = Pods
    /\ DOMAIN env = Pods /\ \A p \in Pods : DOMAIN env[p] = Keys
    /\ step \in [Clients -> {"away", "editing", "open", "write", "snapshot", "http",
                             "https", "answered", "cut"}]
    /\ at \in [Clients -> Pods \union {Nobody}]
    /\ DOMAIN snapshot = Clients
    /\ overlapped \subseteq Pods

\* The lock: one Save at a time on a pod; a pod that does not run handles none.
OneSaves ==
    /\ \A c \in Clients : step[c] \notin {"away", "editing"} => at[c] \in Pods
    /\ \A p \in Pods, c, d \in Clients : InSave(c, p) /\ InSave(d, p) => c = d
    /\ \A p \in Pods \ up, c \in Clients : ~Busy(c, p)

\* Where Saves do not overlap a single request is under way, and what it has exported
\* so far is what is in memory.
Exporting ==
    \A p \in up \ overlapped :
        /\ \A c, d \in Clients : Busy(c, p) /\ Busy(d, p) => c = d
        /\ \A c \in Clients : at[c] = p /\ step[c] \in {"http", "https"} =>
              snapshot[c] = config[p].proxy
        /\ \A c \in Clients : at[c] = p /\ step[c] = "https" =>
              env[p]["HTTP_PROXY"] = config[p].proxy
        /\ (\A c \in Clients : ~Busy(c, p)) =>
              \A k \in Keys : env[p][k] = config[p].proxy

\* Unless a write went wrong the file is whole when nobody has truncated it, and it is
\* what the last saver has in memory when that is not saving again.
FileFollows ==
    ~torn /\ lastSaver \in Pods =>
        /\ (\A c \in Clients : step[c] # "write") => file.state = "whole"
        /\ file.state = "whole" /\ lastSaver \in up
              /\ (\A c \in Clients : ~InSave(c, lastSaver))
           => file.config = config[lastSaver]

Inv == Shape /\ OneSaves /\ Exporting /\ FileFollows

-----------------------------------------------------------------------------

LEMMA SaveKeepsInv ==
    ASSUME Inv, NEW c \in Clients, NEW p \in Pods, NEW mask \in Masks, Save(c, p, mask)
    PROVE  Inv'
<1> USE DEF Inv, Shape, InSave, Applying, Busy
<1>1. /\ step[c] = "editing" /\ p \in up /\ ~Locked(p)
      /\ step' = [step EXCEPT ![c] = "open"] /\ at' = [at EXCEPT ![c] = p]
      /\ DOMAIN config' = Pods /\ \A q \in Pods \ {p} : config'[q] = config[q]
      /\ overlapped' = IF \E d \in Clients : Applying(d, p) THEN overlapped \union {p}
                       ELSE overlapped \ {p}
      /\ UNCHANGED <<up, env, file, snapshot, lastSaver, torn>>
    BY DEF Save, Goto
<1>2. Shape'
    BY <1>1
<1>3. OneSaves'
    BY <1>1 DEF OneSaves, Locked
<1>4. Exporting'
    <2> SUFFICES ASSUME NEW q \in up' \ overlapped'
                 PROVE  /\ \A d, e \in Clients : Busy(d, q)' /\ Busy(e, q)' => d = e
                        /\ \A d \in Clients : at'[d] = q /\ step'[d] \in {"http", "https"} =>
                              snapshot'[d] = config'[q].proxy
                        /\ \A d \in Clients : at'[d] = q /\ step'[d] = "https" =>
                              env'[q]["HTTP_PROXY"] = config'[q].proxy
                        /\ (\A d \in Clients : ~Busy(d, q)') =>
                              \A k \in Keys : env'[q][k] = config'[q].proxy
        BY DEF Exporting
    <2>1. CASE q = p
        <3>1. \A d \in Clients : ~Busy(d, p)
            BY <1>1, <2>1 DEF Locked
        <3> QED
            BY <1>1, <2>1, <3>1
    <2>2. CASE q # p
        <3>1. q \in up \ overlapped /\ config'[q] = config[q]
            BY <1>1, <2>2
        <3>2. \A d \in Clients : /\ Busy(d, q)' <=> Busy(d, q)
                                 /\ (at'[d] = q /\ step'[d] = "https") <=> (at[d] = q /\ step[d] = "https")
                                 /\ (at'[d] = q /\ step'[d] \in {"http", "https"})
                                        <=> (at[d] = q /\ step[d] \in {"http", "https"})
            BY <1>1, <2>2
        <3> QED
            BY <1>1, <3>1, <3>2 DEF Exporting
    <2> QED
        BY <2>1, <2>2
<1>5. FileFollows'
    <2>1. (\A d \in Clients : step'[d] # "write") => \A d \in Clients : step[d] # "write"
        BY <1>1
    <2>2. lastSaver \in up /\ (\A d \in Clients : ~InSave(d, lastSaver)') =>
              /\ \A d \in Clients : ~InSave(d, lastSaver)
              /\ lastSaver # p
        BY <1>1
    <2> QED
        BY <1>1, <2>1, <2>2 DEF FileFollows
<1> QED
    BY <1>2, <1>3, <1>4, <1>5

LEMMA WriteKeepsInv ==
    ASSUME Inv, NEW c \in Clients, OpenFile(c) \/ WriteFile(c)
    PROVE  Inv'
<1> USE DEF Inv, Shape, InSave, Applying, Busy, Goto
<1>1. /\ step[c] \in {"open", "write"} /\ at[c] \in Pods
      /\ step' = [step EXCEPT ![c] = "write"] \/ step' = [step EXCEPT ![c] = "snapshot"]
      /\ UNCHANGED <<up, config, env, at, snapshot, overlapped>>
    BY DEF OpenFile, WriteFile, OneSaves
<1>2. Shape'
    BY <1>1
<1>3. OneSaves'
    BY <1>1 DEF OneSaves
<1>4. \A d \in Clients, p \in Pods :
          /\ Busy(d, p)' <=> Busy(d, p)
          /\ step'[d] \in {"http", "https"} <=> step[d] \in {"http", "https"}
          /\ step'[d] = "https" <=> step[d] = "https"
    BY <1>1
<1>5. Exporting'
    BY <1>1, <1>4 DEF Exporting
<1>6. FileFollows'
    <2>1. CASE torn' = TRUE
        BY <2>1 DEF FileFollows
    <2>2. CASE step' = [step EXCEPT ![c] = "write"] /\ file' = [state |-> "empty"]
        <3>1. step'[c] = "write" /\ file'.state = "empty"
            BY <2>2
        <3> QED
            BY <3>1 DEF FileFollows
    <2>3. CASE /\ WriteFile(c)
               /\ file' \in Written([state |-> "whole", config |-> config[at[c]]])
               /\ torn' = (file'.state # "whole")
        <3>1. CASE file' = [state |-> "whole", config |-> config[at[c]]]
            <4>1. file'.state = "whole" /\ file'.config = config'[at[c]] /\ lastSaver' = at[c]
                BY <1>1, <2>3, <3>1 DEF WriteFile
            <4> QED
                BY <4>1 DEF FileFollows
        <3>2. CASE file' = [state |-> "damaged"]
            BY <2>3, <3>2 DEF FileFollows
        <3> QED
            BY <2>3, <3>1, <3>2 DEF Written
    <2> QED
        BY <2>1, <2>2, <2>3 DEF OpenFile, WriteFile
<1> QED
    BY <1>2, <1>3, <1>5, <1>6

LEMMA ExportKeepsInv ==
    ASSUME Inv, NEW c \in Clients, Snapshot(c) \/ SetHTTP(c) \/ SetHTTPS(c)
    PROVE  Inv'
<1> USE DEF Inv, Shape, InSave, Applying, Busy, Goto, Keys
<1>1. /\ step[c] \in {"snapshot", "http", "https"} /\ at[c] \in Pods
      /\ \/ step' = [step EXCEPT ![c] = "http"]
         \/ step' = [step EXCEPT ![c] = "https"]
         \/ step' = [step EXCEPT ![c] = "answered"]
      /\ DOMAIN snapshot' = Clients
      /\ DOMAIN env' = Pods /\ \A p \in Pods : DOMAIN env'[p] = Keys
      /\ UNCHANGED <<up, config, file, at, lastSaver, torn, overlapped>>
    BY DEF Snapshot, SetHTTP, SetHTTPS, SetEnv, OneSaves, histVars
<1>2. Shape'
    BY <1>1
<1>3. OneSaves'
    BY <1>1 DEF OneSaves
<1>4. FileFollows'
    BY <1>1 DEF FileFollows
<1>5. Exporting'
    <2>1. CASE Snapshot(c)
        BY <1>1, <2>1 DEF Snapshot, Exporting
    <2>2. CASE SetHTTP(c)
        BY <1>1, <2>2 DEF SetHTTP, SetEnv, Exporting
    <2>3. CASE SetHTTPS(c)
        BY <1>1, <2>3 DEF SetHTTPS, SetEnv, Exporting
    <2> QED
        BY <2>1, <2>2, <2>3
<1> QED
    BY <1>2, <1>3, <1>4, <1>5

LEMMA PodKeepsInv ==
    ASSUME Inv, NEW p \in Pods, Die(p) \/ Start(p)
    PROVE  Inv'
<1> USE DEF Inv, Shape, InSave, Applying, Busy
<1>1. CASE Die(p)
    <2>1. Shape'
        BY <1>1 DEF Die
    <2>2. OneSaves'
        BY <1>1 DEF Die, OneSaves
    <2>3. Exporting'
        BY <1>1 DEF Die, Exporting
    <2>4. FileFollows'
        BY <1>1 DEF Die, FileFollows
    <2> QED
        BY <2>1, <2>2, <2>3, <2>4
<1>2. CASE Start(p)
    <2>1. Shape'
        BY <1>2 DEF Start, saveVars
    <2>2. OneSaves'
        BY <1>2 DEF Start, saveVars, OneSaves
    <2>3. Exporting'
        BY <1>2 DEF Start, saveVars, Exporting, OneSaves
    <2>4. FileFollows'
        BY <1>2 DEF Start, saveVars, FileFollows, Loaded
    <2> QED
        BY <2>1, <2>2, <2>3, <2>4
<1> QED
    BY <1>1, <1>2

LEMMA AlwaysInv == Spec => []Inv
<1> USE DEF Inv, Shape, InSave, Applying, Busy
<1>1. Init => Inv
    <2> SUFFICES ASSUME Init PROVE Inv
        OBVIOUS
    <2>1. Shape
        BY DEF Init
    <2>2. OneSaves
        BY DEF Init, OneSaves
    <2>3. Exporting
        BY DEF Init, Exporting
    <2>4. FileFollows
        BY ConfigAssumption DEF Init, FileFollows
    <2> QED
        BY <2>1, <2>2, <2>3, <2>4
<1>2. Inv /\ [Next]_vars => Inv'
    <2> SUFFICES ASSUME Inv, [Next]_vars PROVE Inv'
        OBVIOUS
    <2>1. ASSUME NEW c \in Clients, NEW p \in Pods, NEW e \in Edits, Get(c, p, e) PROVE Inv'
        <3>1. /\ step[c] = "away" /\ step' = [step EXCEPT ![c] = "editing"]
              /\ UNCHANGED <<up, config, env, file, at, snapshot, lastSaver, torn, overlapped>>
            BY <2>1 DEF Get, Goto, histVars
        <3>2. \A d \in Clients, q \in Pods :
                  /\ InSave(d, q)' <=> InSave(d, q)
                  /\ Applying(d, q)' <=> Applying(d, q)
                  /\ step'[d] \in {"away", "editing"} <=> step[d] \in {"away", "editing"}
                  /\ \A at0 \in {"write", "http", "https"} : step'[d] = at0 <=> step[d] = at0
            BY <3>1
        <3>3. Shape' /\ OneSaves'
            BY <3>1, <3>2 DEF OneSaves
        <3>4. Exporting'
            BY <3>1, <3>2 DEF Exporting
        <3>5. FileFollows'
            BY <3>1, <3>2 DEF FileFollows
        <3> QED
            BY <3>3, <3>4, <3>5
    <2>2. ASSUME NEW s \in Scans, NEW p \in Pods, RunScan(s, p) PROVE Inv'
        <3>1. UNCHANGED <<up, config, env, file, step, at, snapshot, lastSaver, torn, overlapped>>
            BY <2>2 DEF RunScan, saveVars, histVars
        <3> QED
            BY <3>1 DEF OneSaves, Exporting, FileFollows
    <2>3. CASE UNCHANGED vars
        BY <2>3 DEF vars, saveVars, histVars, OneSaves, Exporting, FileFollows
    <2> HIDE DEF Inv
    <2> QED
        BY <2>1, <2>2, <2>3, SaveKeepsInv, WriteKeepsInv, ExportKeepsInv, PodKeepsInv DEF Next
<1> QED
    BY <1>1, <1>2, PTL DEF Spec

\* Between Saves that do not overlap, a pod's proxy variables are those of its
\* configuration, whatever dies, restarts or cannot be written.
THEOREM EnvironmentFollows == Spec => []EnvFollowsConfig
<1>1. Inv => EnvFollowsConfig
    BY DEF Inv, Exporting, EnvFollowsConfig, Idle, Busy
<1> QED
    BY <1>1, AlwaysInv, PTL

\* The pod that saved last would find its own configuration if it started again,
\* unless a write went wrong and no whole one has followed.
THEOREM LastSaveSurvives == Spec => []RestartFindsLastSave
<1>1. Inv => RestartFindsLastSave
    <2> SUFFICES ASSUME Inv, NEW p \in up, p = lastSaver, \A q \in Pods : ~Locked(q), ~torn
                 PROVE  file.state = "whole" /\ file.config = config[p]
        BY DEF RestartFindsLastSave
    <2>1. \A c \in Clients : step[c] # "write"
        BY DEF Inv, OneSaves, Locked, InSave
    <2>2. \A c \in Clients : ~InSave(c, p)
        BY DEF Locked, Inv, Shape
    <2> QED
        BY <2>1, <2>2 DEF Inv, Shape, FileFollows
<1> QED
    BY <1>1, AlwaysInv, PTL

-----------------------------------------------------------------------------
(* Induction, for a set of numbers.                                        *)

LEMMA Least ==
    ASSUME NEW T \in SUBSET Nat, T # {}
    PROVE  \E x \in T : \A y \in T : x <= y
<1> DEFINE R == {ss \in Nat \X Nat : ss[1] < ss[2]}
<1>1. IsWellFoundedOn(R, Nat)
    BY NatLessThanWellFounded, Zenon DEF OpToRel
<1>2. \A x, y \in Nat : x < y => <<x, y>> \in R
    OBVIOUS
<1> HIDE DEF R
<1>3. PICK x \in T : \A y \in T : ~ (<<y, x>> \in R)
    BY <1>1, WFMin, Zenon
<1>4. ASSUME NEW y \in T PROVE x <= y
    <2>1. x \in Nat /\ y \in Nat /\ <<y, x>> \notin R
        BY <1>3
    <2>2. ~ (y < x)
        BY <1>2, <2>1
    <2> QED
        BY <2>1, <2>2
<1> QED
    BY <1>4

LEMMA AllOf ==
    ASSUME NEW T \in SUBSET Nat, 0 \in T, \A n \in T : n + 1 \in T
    PROVE  T = Nat
<1>1. SUFFICES ASSUME Nat \ T # {} PROVE FALSE
    OBVIOUS
<1>2. PICK x \in Nat \ T : \A y \in Nat \ T : x <= y
    BY <1>1, Least
<1>3. x # 0 /\ x - 1 \in Nat
    BY <1>2
<1>4. x - 1 \in T
    BY <1>2, <1>3
<1> QED
    BY <1>2, <1>4

\* The recursion of Kept has a solution.
LEMMA KeptSteps ==
    ASSUME NEW seq, NEW keep, Len(seq) \in Nat
    PROVE  \E f : /\ Kept(seq, keep) = f[Len(seq)] /\ f[0] = <<>>
                  /\ \A n \in 0..(Len(seq) - 1) :
                        f[n + 1] = IF n + 1 \in keep THEN Append(f[n], seq[n + 1]) ELSE f[n]
<1> DEFINE Nth(f, n) == IF n = 0 THEN <<>>
                          ELSE IF n \in keep THEN Append(f[n - 1], seq[n]) ELSE f[n - 1]
           Is(f, m)    == f = [n \in 0..m |-> Nth(f, n)]
           T           == {m \in Nat : \E f : Is(f, m)}
<1>1. 0 \in T
    <2> DEFINE g == [n \in 0..0 |-> <<>>]
    <2>1. Is(g, 0)
        OBVIOUS
    <2> QED
        BY <2>1
<1>2. ASSUME NEW m \in T PROVE m + 1 \in T
    <2>1. PICK f : Is(f, m)
        BY <1>2
    <2> DEFINE g == [n \in 0..(m + 1) |-> Nth(f, n)]
    <2>2. ASSUME NEW n \in 0..m PROVE f[n] = g[n]
        <3>1. g[n] = Nth(f, n)
            BY <1>2
        <3>2. f[n] = Nth(f, n)
            BY <2>1
        <3> QED
            BY <3>1, <3>2
    <2>3. \A n \in 0..(m + 1) : g[n] = Nth(g, n)
        <3> TAKE n \in 0..(m + 1)
        <3>1. n # 0 => n - 1 \in 0..m
            BY <1>2
        <3>2. n # 0 => f[n - 1] = g[n - 1]
            BY <2>2, <3>1
        <3>3. g[n] = Nth(f, n)
            OBVIOUS
        <3> HIDE DEF g
        <3> QED
            BY <3>2, <3>3
    <2>4. Is(g, m + 1)
        <3>1. g = [n \in 0..(m + 1) |-> g[n]]
            OBVIOUS
        <3> HIDE DEF g
        <3> QED
            BY <2>3, <3>1
    <2>5. m + 1 \in Nat
        BY <1>2
    <2> HIDE DEF Is, g
    <2> QED
        BY <2>4, <2>5
<1>3. Len(seq) \in T
    <2>1. T \subseteq Nat
        OBVIOUS
    <2> HIDE DEF T
    <2> QED
        BY <1>1, <1>2, <2>1, AllOf
<1> DEFINE f == CHOOSE f : Is(f, Len(seq))
<1>4. Is(f, Len(seq))
    <2>1. \E g : Is(g, Len(seq))
        BY <1>3
    <2> HIDE DEF Is
    <2> QED
        BY <2>1
<1>5. Kept(seq, keep) = f[Len(seq)]
    BY Zenon DEF Kept
<1> HIDE DEF f
<1>6. \A n \in 0..Len(seq) : f[n] = Nth(f, n)
    BY <1>4
<1>7. f[0] = <<>>
    BY <1>6
<1>8. ASSUME NEW n \in 0..(Len(seq) - 1)
      PROVE  f[n + 1] = IF n + 1 \in keep THEN Append(f[n], seq[n + 1]) ELSE f[n]
    <2>1. n + 1 \in 0..Len(seq) /\ n + 1 # 0 /\ (n + 1) - 1 = n
        OBVIOUS
    <2> QED
        BY <1>6, <2>1
<1> QED
    BY <1>5, <1>7, <1>8

\* The elements of seq at the indexes of keep, in their order.
Thinned(q, seq, keep) ==
    \E from \in [1..Len(q) -> keep] :
       /\ \A i \in 1..Len(q) : q[i] = seq[from[i]]
       /\ \A i, k \in 1..Len(q) : i < k => from[i] < from[k]
       /\ \A n \in keep : \E i \in 1..Len(q) : from[i] = n

LEMMA KeptIs ==
    ASSUME NEW V, NEW seq \in Seq(V), NEW keep \in SUBSET (1..Len(seq))
    PROVE  Kept(seq, keep) \in Seq(V) /\ Thinned(Kept(seq, keep), seq, keep)
<1>1. Len(seq) \in Nat /\ \A n \in 1..Len(seq) : seq[n] \in V
    OBVIOUS
<1>2. PICK f : /\ Kept(seq, keep) = f[Len(seq)] /\ f[0] = <<>>
               /\ \A n \in 0..(Len(seq) - 1) :
                     f[n + 1] = IF n + 1 \in keep THEN Append(f[n], seq[n + 1]) ELSE f[n]
    BY <1>1, KeptSteps
<1> DEFINE Good(n, from) ==
              /\ f[n] \in Seq(V) /\ from \in [1..Len(f[n]) -> keep \intersect 1..n]
              /\ \A i \in 1..Len(f[n]) : f[n][i] = seq[from[i]]
              /\ \A i, k \in 1..Len(f[n]) : i < k => from[i] < from[k]
              /\ \A m \in keep \intersect 1..n : \E i \in 1..Len(f[n]) : from[i] = m
           T == {n \in Nat : n <= Len(seq) => \E from : Good(n, from)}
<1>3. 0 \in T
    <2> DEFINE from == [i \in 1..0 |-> 0]
    <2>1. f[0] \in Seq(V) /\ Len(f[0]) = 0
        BY <1>2
    <2>2. 1..0 = {} /\ 1..Len(f[0]) = {} /\ keep \intersect 1..0 = {}
        BY <2>1
    <2>3. from \in [1..Len(f[0]) -> keep \intersect 1..0]
        BY <2>2
    <2>4. Good(0, from)
        BY <2>1, <2>2, <2>3
    <2> HIDE DEF Good, from
    <2> QED
        BY <2>4
<1>4. ASSUME NEW n \in T PROVE n + 1 \in T
    <2>1. n \in Nat /\ n + 1 \in Nat
        BY <1>4
    <2>2. SUFFICES ASSUME n + 1 <= Len(seq) PROVE \E from : Good(n + 1, from)
        <3> HIDE DEF Good
        <3> QED
            BY <2>1
    <2>3. n \in 0..(Len(seq) - 1) /\ n <= Len(seq)
        BY <1>1, <2>1, <2>2
    <2>4. PICK from : Good(n, from)
        <3> HIDE DEF Good
        <3> QED
            BY <1>4, <2>3
    <2>5. CASE n + 1 \notin keep
        <3>1. f[n + 1] = f[n] /\ keep \intersect 1..(n + 1) = keep \intersect 1..n
            BY <1>2, <2>1, <2>3, <2>5
        <3>2. Good(n + 1, from)
            BY <2>4, <3>1
        <3> HIDE DEF Good
        <3> QED
            BY <3>2
    <2>6. CASE n + 1 \in keep
        <3> DEFINE len == Len(f[n])
                   to  == [i \in 1..(len + 1) |-> IF i = len + 1 THEN n + 1 ELSE from[i]]
        <3>1. seq[n + 1] \in V /\ f[n] \in Seq(V) /\ len \in Nat /\ f[n + 1] = Append(f[n], seq[n + 1])
            <4>1. f[n] \in Seq(V)
                BY <2>4
            <4>2. seq[n + 1] \in V
                BY <1>1, <2>1, <2>2
            <4>3. f[n + 1] = Append(f[n], seq[n + 1])
                BY <1>2, <2>3, <2>6
            <4> QED
                BY <4>1, <4>2, <4>3
        <3>2. /\ f[n + 1] \in Seq(V) /\ Len(f[n + 1]) = len + 1
              /\ \A i \in 1..len : f[n + 1][i] = f[n][i]
              /\ f[n + 1][len + 1] = seq[n + 1]
            BY <3>1
        <3> HIDE DEF len
        <3>3. /\ from \in [1..len -> keep \intersect 1..n]
              /\ \A i \in 1..len : f[n][i] = seq[from[i]]
              /\ \A i, k \in 1..len : i < k => from[i] < from[k]
              /\ \A m \in keep \intersect 1..n : \E i \in 1..len : from[i] = m
            BY <2>4 DEF len
        <3>4. /\ \A i \in 1..len : i \in 1..(len + 1) /\ i # len + 1 /\ to[i] = from[i]
              /\ to[len + 1] = n + 1 /\ len + 1 \in 1..(len + 1)
              /\ \A i \in 1..(len + 1) : i = len + 1 \/ i \in 1..len
              /\ to = [i \in 1..(len + 1) |-> to[i]]
            BY <3>1
        <3> HIDE DEF to
        <3>5. /\ \A i \in 1..len : from[i] \in keep /\ from[i] \in 1..(n + 1) /\ from[i] < n + 1
              /\ n + 1 \in keep \intersect 1..(n + 1)
            BY <2>1, <2>6, <3>3
        <3>6. \A i \in 1..(len + 1) : to[i] \in keep \intersect 1..(n + 1)
            BY <3>4, <3>5
        <3>7. to \in [1..(len + 1) -> keep \intersect 1..(n + 1)]
            BY <3>4, <3>6
        <3>8. \A i \in 1..(len + 1) : f[n + 1][i] = seq[to[i]]
            BY <3>2, <3>3, <3>4
        <3>9. \A i, k \in 1..(len + 1) : i < k => to[i] < to[k]
            <4> TAKE i, k \in 1..(len + 1)
            <4> HAVE i < k
            <4>1. i \in 1..len
                BY <3>1, <3>4
            <4>2. CASE k = len + 1
                BY <3>4, <3>5, <4>1, <4>2
            <4>3. CASE k \in 1..len
                BY <3>3, <3>4, <4>1, <4>3
            <4> QED
                BY <3>4, <4>2, <4>3
        <3>10. \A m \in keep \intersect 1..(n + 1) : \E i \in 1..(len + 1) : to[i] = m
            <4> TAKE m \in keep \intersect 1..(n + 1)
            <4>1. CASE m = n + 1
                BY <3>4, <4>1
            <4>2. CASE m \in 1..n
                BY <3>3, <3>4, <4>2
            <4> QED
                BY <2>1, <4>1, <4>2
        <3>11. Good(n + 1, to)
            BY <3>2, <3>7, <3>8, <3>9, <3>10
        <3> HIDE DEF Good
        <3> QED
            BY <3>11
    <2> QED
        BY <2>5, <2>6
<1>5. \E from : Good(Len(seq), from)
    <2>1. T \subseteq Nat
        OBVIOUS
    <2>2. T = Nat
        <3> HIDE DEF T
        <3> QED
            BY <1>3, <1>4, <2>1, AllOf
    <2> HIDE DEF Good
    <2> QED
        BY <1>1, <2>2
<1>6. keep \intersect 1..Len(seq) = keep
    OBVIOUS
<1> QED
    BY <1>2, <1>5, <1>6 DEF Thinned

-----------------------------------------------------------------------------
(* Configurations.                                                         *)

\* The last of some indexes of a sequence.
LEMMA Greatest ==
    ASSUME NEW n \in Nat, NEW S \in SUBSET (1..n), S # {}
    PROVE  \E x \in S : \A y \in S : y <= x
<1> DEFINE T == {n - x : x \in S}
<1>1. T \in SUBSET Nat /\ T # {}
    <2>1. \A x \in S : n - x \in Nat
        OBVIOUS
    <2> QED
        BY <2>1
<1>2. PICK t \in T : \A u \in T : t <= u
    BY <1>1, Least
<1>3. PICK x \in S : t = n - x
    BY <1>2
<1>4. ASSUME NEW y \in S PROVE y <= x
    <2>1. n - x <= n - y
        BY <1>2, <1>3, <1>4
    <2> QED
        BY <1>3, <2>1
<1> QED
    BY <1>4

\* The entries of a client for an authority, and the last of them.
At(auths, a) == {i \in DOMAIN auths : auths[i].authority = a /\ auths[i].source = "ui"}

Top(auths, a, x) == \E i \in At(auths, a) : auths[i] = x /\ \A j \in At(auths, a) : j <= i

LEMMA HasTop ==
    ASSUME NEW V, NEW auths \in Seq(V), NEW a, At(auths, a) # {}
    PROVE  \E x \in V : Top(auths, a, x)
<1>1. Len(auths) \in Nat /\ At(auths, a) \in SUBSET (1..Len(auths))
    BY DEF At
<1>2. PICK i \in At(auths, a) : \A j \in At(auths, a) : j <= i
    BY <1>1, Greatest
<1>3. auths[i] \in V
    BY <1>1
<1> QED
    BY <1>2, <1>3 DEF Top

-----------------------------------------------------------------------------
(* What is stored, and what is shown of it.                                *)

LEMMA EntryIs ==
    ASSUME NEW x \in Entry
    PROVE  /\ x = [authority |-> x.authority, password |-> x.password, source |-> x.source]
           /\ x.authority \in Authorities /\ x.password \in Secrets \union {""}
           /\ x.source = "ui" /\ x.password \notin Masks
<1>1. "" \notin Masks
    BY DEF Masks
<1> QED
    BY <1>1, ConfigAssumption DEF Entry

LEMMA AuthsAre ==
    ASSUME NEW c, IsConfig(c)
    PROVE  /\ c.auths \in Seq(Entry) /\ Len(c.auths) \in Nat /\ DOMAIN c.auths = 1..Len(c.auths)
           /\ c.proxy \in Proxies
           /\ \A i \in 1..Len(c.auths) : c.auths[i] \in Entry
           /\ \A a : At(c.auths, a) = {i \in DOMAIN c.auths : c.auths[i].authority = a}
<1>1. /\ c.auths \in Seq(Entry) /\ Len(c.auths) \in Nat /\ DOMAIN c.auths = 1..Len(c.auths)
      /\ \A i \in 1..Len(c.auths) : c.auths[i] \in Entry
    BY DEF IsConfig
<1>2. \A i \in 1..Len(c.auths) : c.auths[i].source = "ui"
    BY <1>1, EntryIs
<1> QED
    BY <1>1, <1>2 DEF At, IsConfig

\* Of several entries for an authority the last one counts.
LEMMA StoredIs ==
    ASSUME NEW c, IsConfig(c), NEW a
    PROVE  /\ \A x : Top(c.auths, a, x) => StoredPassword(c, a) = x.password
           /\ At(c.auths, a) = {} => StoredPassword(c, a) = ""
           /\ At(c.auths, a) # {} => \E i \in At(c.auths, a) :
                                        StoredPassword(c, a) = c.auths[i].password
<1> DEFINE entries == {i \in DOMAIN c.auths : c.auths[i].authority = a}
           last    == CHOOSE i \in entries : \A j \in entries : j <= i
<1>1. At(c.auths, a) = entries /\ entries \subseteq Int /\ c.auths \in Seq(Entry)
    BY AuthsAre
<1>2. StoredPassword(c, a) = IF entries = {} THEN "" ELSE c.auths[last].password
    BY DEF StoredPassword
<1>3. ASSUME NEW x, Top(c.auths, a, x)
      PROVE  StoredPassword(c, a) = x.password
    <2>1. PICK i \in entries : c.auths[i] = x /\ \A j \in entries : j <= i
        BY <1>1, <1>3 DEF Top
    <2>2. last \in entries /\ \A j \in entries : j <= last
        <3> HIDE DEF entries
        <3> QED
            BY <2>1
    <2>3. last = i
        <3> HIDE DEF entries, last
        <3> QED
            BY <1>1, <2>1, <2>2
    <2> QED
        BY <1>2, <2>1, <2>3
<1>4. ASSUME At(c.auths, a) # {}
      PROVE  \E i \in At(c.auths, a) : StoredPassword(c, a) = c.auths[i].password
    <2>1. PICK x \in Entry : Top(c.auths, a, x)
        BY <1>1, <1>4, HasTop
    <2>2. StoredPassword(c, a) = x.password
        BY <1>3, <2>1
    <2>3. PICK i \in At(c.auths, a) : c.auths[i] = x
        BY <2>1 DEF Top
    <2> QED
        BY <2>2, <2>3
<1> QED
    BY <1>1, <1>2, <1>3, <1>4

\* A finite set, as some sequence of its elements.
LEMMA ListIs ==
    ASSUME NEW S, IsFiniteSet(S)
    PROVE  SetToSeq(S) \in Seq(S)
<1>1. Cardinality(S) \in Nat /\ ExistsBijection(1..Cardinality(S), S)
    BY FS_CardinalityType
<1>2. \E f \in [1..Cardinality(S) -> S] : IsInjective(f)
    BY <1>1 DEF ExistsBijection, Bijection, Injection
<1>3. SetToSeq(S) \in [1..Cardinality(S) -> S]
    BY <1>2 DEF SetToSeq
<1> QED
    BY <1>1, <1>3

\* What a client is shown: stored entries with a mask, then mounted ones.
Shown == [authority : Authorities, password : {"", "********"}, source : {"ui", "mounted-secret"}]

LEMMA ShownIs ==
    ASSUME NEW x \in Shown
    PROVE  x = [authority |-> x.authority, password |-> x.password, source |-> x.source]
BY DEF Shown

LEMMA PublicIs ==
    ASSUME NEW c, IsConfig(c)
    PROVE  /\ DOMAIN GetPublic(c) = {"proxy", "auths"} /\ GetPublic(c).proxy = c.proxy
           /\ GetPublic(c).auths \in Seq(Shown) /\ Len(c.auths) <= Len(GetPublic(c).auths)
           /\ \A i \in 1..Len(c.auths) :
                 /\ GetPublic(c).auths[i].authority = c.auths[i].authority
                 /\ GetPublic(c).auths[i].password = IF c.auths[i].password = "" THEN "" ELSE "********"
                 /\ GetPublic(c).auths[i].source = "ui"
           /\ \A i \in 1..Len(GetPublic(c).auths) :
                 GetPublic(c).auths[i].source = "ui" => i \in 1..Len(c.auths)
<1> DEFINE Masked(x) == [x EXCEPT !.password = IF x.password = "" THEN "" ELSE "********"]
           Line(a)   == [authority |-> a, password |-> "********", source |-> "mounted-secret"]
           lines     == {Line(a) : a \in DOMAIN Mounted}
           masked    == [i \in DOMAIN c.auths |-> Masked(c.auths[i])]
           mounted   == SetToSeq(lines)
           n         == Len(c.auths)
<1>1. GetPublic(c) = [c EXCEPT !.auths = masked \o mounted]
    BY DEF GetPublic
<1>2. mounted \in Seq(lines)
    <2>1. DOMAIN Mounted = DOMAIN PullSecret /\ IsFiniteSet(DOMAIN Mounted)
        BY ConfigAssumption DEF Mounted
    <2> DEFINE f == [a \in DOMAIN Mounted |-> Line(a)]
    <2>2. f \in Surjection(DOMAIN Mounted, lines)
        BY DEF Surjection
    <2>3. IsFiniteSet(lines)
        <3> HIDE DEF f, lines
        <3> QED
            BY <2>1, <2>2, FS_Surjection
    <2> QED
        BY <2>3, ListIs
<1>3. /\ n \in Nat /\ DOMAIN c.auths = 1..n /\ \A i \in 1..n : c.auths[i] \in Entry
    BY AuthsAre
<1>4. ASSUME NEW x \in Entry
      PROVE  /\ Masked(x) \in Shown /\ Masked(x).authority = x.authority /\ Masked(x).source = "ui"
             /\ Masked(x).password = IF x.password = "" THEN "" ELSE "********"
    <2> DEFINE mask == IF x.password = "" THEN "" ELSE "********"
    <2>1. /\ x = [authority |-> x.authority, password |-> x.password, source |-> "ui"]
          /\ x.authority \in Authorities /\ mask \in {"", "********"}
        BY EntryIs
    <2> HIDE DEF mask
    <2>2. [x EXCEPT !.password = mask] =
              [authority |-> x.authority, password |-> mask, source |-> "ui"]
        <3>1. [[authority |-> x.authority, password |-> x.password, source |-> "ui"]
                    EXCEPT !.password = mask] =
                  [authority |-> x.authority, password |-> mask, source |-> "ui"]
            OBVIOUS
        <3> QED
            BY <2>1, <3>1, Zenon
    <2>3. [x EXCEPT !.password = mask] \in Shown
        BY <2>1, <2>2 DEF Shown
    <2> QED
        BY <2>2, <2>3 DEF mask
<1>5. \A i \in 1..n : Masked(c.auths[i]) \in Shown
    <2> HIDE DEF Masked
    <2> QED
        BY <1>3, <1>4
<1>6. ASSUME NEW x \in lines PROVE x \in Shown /\ x.source = "mounted-secret"
    <2>1. PICK a \in DOMAIN Mounted : x = Line(a)
        BY <1>6
    <2>2. a \in Authorities
        BY ConfigAssumption DEF Mounted
    <2> QED
        BY <2>1, <2>2 DEF Shown
<1>7. masked \in Seq(Shown) /\ Len(masked) = n /\ \A i \in 1..n : masked[i] = Masked(c.auths[i])
    <2> HIDE DEF Masked
    <2> QED
        BY <1>3, <1>5
<1>8. mounted \in Seq(Shown) /\ \A i \in 1..Len(mounted) : mounted[i].source = "mounted-secret"
    <2> HIDE DEF lines, mounted
    <2>1. DOMAIN mounted = 1..Len(mounted) /\ \A i \in 1..Len(mounted) : mounted[i] \in lines
        BY <1>2
    <2> QED
        BY <1>2, <1>6, <2>1
<1>9. /\ DOMAIN GetPublic(c) = {"proxy", "auths"} /\ GetPublic(c).proxy = c.proxy
      /\ GetPublic(c).auths = masked \o mounted
    <2> HIDE DEF masked, mounted
    <2> QED
        BY <1>1 DEF IsConfig
<1> HIDE DEF masked, mounted, Masked
<1>10. /\ masked \o mounted \in Seq(Shown) /\ Len(masked \o mounted) = n + Len(mounted)
       /\ Len(mounted) \in Nat
       /\ \A i \in 1..n : (masked \o mounted)[i] = masked[i]
       /\ \A i \in (n + 1)..(n + Len(mounted)) : (masked \o mounted)[i] = mounted[i - n]
    BY <1>3, <1>7, <1>8
<1>11. \A i \in 1..(n + Len(mounted)) : i \in 1..n \/ (i \in (n + 1)..(n + Len(mounted))
                                                        /\ i - n \in 1..Len(mounted))
    BY <1>3, <1>10
<1>12. \A i \in 1..(n + Len(mounted)) : (masked \o mounted)[i].source = "ui" => i \in 1..n
    BY <1>8, <1>10, <1>11
<1>13. \A i \in 1..n :
          /\ (masked \o mounted)[i].authority = c.auths[i].authority
          /\ (masked \o mounted)[i].password = IF c.auths[i].password = "" THEN "" ELSE "********"
          /\ (masked \o mounted)[i].source = "ui"
    <2> TAKE i \in 1..n
    <2>1. (masked \o mounted)[i] = Masked(c.auths[i]) /\ c.auths[i] \in Entry
        BY <1>3, <1>7, <1>10
    <2> QED
        BY <1>4, <2>1
<1>14. n <= n + Len(mounted)
    BY <1>3, <1>10
<1> HIDE DEF n
<1> QED
    BY <1>9, <1>10, <1>12, <1>13, <1>14 DEF n

-----------------------------------------------------------------------------
(* What a client sends.                                                    *)

LEMMA EditIs ==
    ASSUME NEW e \in Edits
    PROVE  /\ e.change \in {"proxy", "add", "password", "rename", "remove", "nothing"}
           /\ e.change = "proxy" => e.to \in Proxies
           /\ e.change = "add" => e.of \in Authorities
           /\ e.change \in {"add", "password"} => e.to \in Secrets /\ e.to \notin Masks
           /\ e.change = "rename" => e.to \in Authorities
           /\ e # None
<1>1. e \in Edit /\ e # None
    BY ConfigAssumption
<1>2. CASE e \in [change : {"proxy"}, to : Proxies]
    BY <1>1, <1>2
<1>3. CASE e \in [change : {"add"}, of : Authorities, to : NewSecrets]
    <2>1. e.to \in NewSecrets /\ e.of \in Authorities /\ e.change = "add"
        BY <1>3
    <2> QED
        BY <1>1, <2>1, ConfigAssumption
<1>4. CASE e \in [change : {"password"}, entry : Nat, to : NewSecrets]
    <2>1. e.to \in NewSecrets /\ e.change = "password"
        BY <1>4
    <2> QED
        BY <1>1, <2>1, ConfigAssumption
<1>5. CASE e \in [change : {"rename"}, entry : Nat, to : Authorities]
    BY <1>1, <1>5
<1>6. CASE e \in [change : {"remove"}, entry : Nat] \union [change : {"nothing"}]
    BY <1>1, <1>6
<1> QED
    BY <1>1, <1>2, <1>3, <1>4, <1>5, <1>6 DEF Edit

\* The entry that an edit is about, if it is a stored one.
ChosenIn(auths, e) == {i \in DOMAIN auths : i = e.entry /\ auths[i].source = "ui"}

Typed(e) == [authority |-> e.of, password |-> e.to, source |-> "ui"]

WithPassword(x, w)  == [x EXCEPT !.password = w]
WithAuthority(x, a) == [x EXCEPT !.authority = a]

\* The stored entries after an edit, for each kind of edit.
LEMMA EditedAuths ==
    ASSUME NEW V, NEW g, DOMAIN g = {"proxy", "auths"}, g.auths \in Seq(V), NEW e \in Edits
    PROVE  /\ DOMAIN Edited(g, e) = {"proxy", "auths"}
           /\ Edited(g, e).proxy = IF e.change = "proxy" THEN e.to ELSE g.proxy
           /\ e.change \in {"proxy", "nothing"} => Edited(g, e).auths = g.auths
           /\ e.change = "remove" =>
                 Edited(g, e).auths = Kept(g.auths, DOMAIN g.auths \ ChosenIn(g.auths, e))
           /\ e.change = "password" =>
                 Edited(g, e).auths =
                    [i \in DOMAIN g.auths |->
                        IF i \in ChosenIn(g.auths, e) THEN WithPassword(g.auths[i], e.to)
                        ELSE g.auths[i]]
           /\ e.change = "rename" =>
                 Edited(g, e).auths =
                    [i \in DOMAIN g.auths |->
                        IF i \in ChosenIn(g.auths, e) THEN WithAuthority(g.auths[i], e.to)
                        ELSE g.auths[i]]
           /\ e.change = "add" => Edited(g, e).auths = Append(g.auths, Typed(e))
<1> DEFINE Of(i)   == i = e.entry /\ g.auths[i].source = "ui"
           typed   == [i \in DOMAIN g.auths |->
                          IF Of(i) THEN [g.auths[i] EXCEPT !.password = e.to] ELSE g.auths[i]]
           renamed == [i \in DOMAIN g.auths |->
                          IF Of(i) THEN [g.auths[i] EXCEPT !.authority = e.to] ELSE g.auths[i]]
           added   == Append(g.auths, Typed(e))
           rest    == Kept(g.auths, {i \in DOMAIN g.auths : ~Of(i)})
<1>1. /\ rest = Kept(g.auths, DOMAIN g.auths \ ChosenIn(g.auths, e))
      /\ typed = [i \in DOMAIN g.auths |->
                     IF i \in ChosenIn(g.auths, e) THEN WithPassword(g.auths[i], e.to)
                     ELSE g.auths[i]]
      /\ renamed = [i \in DOMAIN g.auths |->
                       IF i \in ChosenIn(g.auths, e) THEN WithAuthority(g.auths[i], e.to)
                       ELSE g.auths[i]]
    <2>1. {i \in DOMAIN g.auths : ~Of(i)} = DOMAIN g.auths \ ChosenIn(g.auths, e)
        BY DEF ChosenIn
    <2>2. \A i \in DOMAIN g.auths : Of(i) <=> i \in ChosenIn(g.auths, e)
        BY DEF ChosenIn
    <2> HIDE DEF Of
    <2> QED
        BY <2>1, <2>2, Zenon DEF WithPassword, WithAuthority
<1>2. /\ e.change = "proxy" => Edited(g, e) = [g EXCEPT !.proxy = e.to]
      /\ e.change = "nothing" => Edited(g, e) = g
      /\ e.change = "remove" => Edited(g, e) = [g EXCEPT !.auths = rest]
      /\ e.change = "password" => Edited(g, e) = [g EXCEPT !.auths = typed]
      /\ e.change = "rename" => Edited(g, e) = [g EXCEPT !.auths = renamed]
      /\ e.change = "add" => Edited(g, e) = [g EXCEPT !.auths = added]
    <2>1. e.change = "proxy" => Edited(g, e) = [g EXCEPT !.proxy = e.to]
        BY DEF Edited
    <2>2. e.change = "nothing" => Edited(g, e) = g
        BY DEF Edited
    <2>3. e.change = "remove" => Edited(g, e) = [g EXCEPT !.auths = rest]
        BY DEF Edited
    <2>4. e.change = "password" => Edited(g, e) = [g EXCEPT !.auths = typed]
        BY DEF Edited
    <2>5. e.change = "rename" => Edited(g, e) = [g EXCEPT !.auths = renamed]
        BY DEF Edited
    <2>6. e.change = "add" => Edited(g, e) = [g EXCEPT !.auths = added]
        BY DEF Edited, Typed
    <2> QED
        BY <2>1, <2>2, <2>3, <2>4, <2>5, <2>6
<1> HIDE DEF typed, renamed, added, rest
<1>3. \A new : /\ DOMAIN [g EXCEPT !.auths = new] = {"proxy", "auths"}
               /\ [g EXCEPT !.auths = new].auths = new
               /\ [g EXCEPT !.auths = new].proxy = g.proxy
               /\ DOMAIN [g EXCEPT !.proxy = new] = {"proxy", "auths"}
               /\ [g EXCEPT !.proxy = new].proxy = new
               /\ [g EXCEPT !.proxy = new].auths = g.auths
    OBVIOUS
<1>4. CASE e.change = "proxy"
    BY <1>2, <1>3, <1>4
<1>5. CASE e.change = "nothing"
    BY <1>2, <1>5
<1>6. CASE e.change = "remove"
    BY <1>1, <1>2, <1>3, <1>6
<1>7. CASE e.change = "password"
    BY <1>1, <1>2, <1>3, <1>7
<1>8. CASE e.change = "rename"
    BY <1>1, <1>2, <1>3, <1>8
<1>9. CASE e.change = "add"
    BY <1>1, <1>2, <1>3, <1>9 DEF added
<1> QED
    BY <1>4, <1>5, <1>6, <1>7, <1>8, <1>9, EditIs

LEMMA AppendIn ==
    ASSUME NEW V, NEW q \in Seq(V), NEW x \in V
    PROVE  Append(q, x) \in Seq(V)
OBVIOUS

LEMMA ReplaceIn ==
    ASSUME NEW V, NEW q \in Seq(V), NEW f, DOMAIN f = DOMAIN q,
           f = [i \in DOMAIN f |-> f[i]], \A i \in DOMAIN q : f[i] \in V
    PROVE  f \in Seq(V)
<1>1. DOMAIN q = 1..Len(q) /\ Len(q) \in Nat
    OBVIOUS
<1> QED
    BY <1>1

\* What an edit leaves is made of what was there and of what the client has typed.
LEMMA EditedIs ==
    ASSUME NEW V, NEW g, DOMAIN g = {"proxy", "auths"}, g.proxy \in Proxies,
           g.auths \in Seq(V), NEW e \in Edits,
           e.change = "add" => Typed(e) \in V,
           e.change = "password" =>
              \A i \in ChosenIn(g.auths, e) : WithPassword(g.auths[i], e.to) \in V,
           e.change = "rename" =>
              \A i \in ChosenIn(g.auths, e) : WithAuthority(g.auths[i], e.to) \in V
    PROVE  /\ DOMAIN Edited(g, e) = {"proxy", "auths"} /\ Edited(g, e).proxy \in Proxies
           /\ Edited(g, e).auths \in Seq(V)
<1>1. DOMAIN Edited(g, e) = {"proxy", "auths"} /\ Edited(g, e).proxy \in Proxies
    BY EditedAuths, EditIs
<1>2. DOMAIN g.auths = 1..Len(g.auths) /\ Len(g.auths) \in Nat
      /\ \A i \in 1..Len(g.auths) : g.auths[i] \in V
    OBVIOUS
<1>3. CASE e.change \in {"proxy", "nothing"}
    <2>1. Edited(g, e).auths = g.auths
        BY <1>3, EditedAuths, Zenon
    <2> QED
        BY <1>1, <2>1, Zenon
<1>4. CASE e.change = "remove"
    <2>1. DOMAIN g.auths \ ChosenIn(g.auths, e) \in SUBSET (1..Len(g.auths))
        BY <1>2
    <2>2. Kept(g.auths, DOMAIN g.auths \ ChosenIn(g.auths, e)) \in Seq(V)
        BY <2>1, KeptIs, Zenon
    <2>3. Edited(g, e).auths = Kept(g.auths, DOMAIN g.auths \ ChosenIn(g.auths, e))
        BY <1>4, EditedAuths, Zenon
    <2> QED
        BY <1>1, <2>2, <2>3, Zenon
<1>5. CASE e.change = "password"
    <2> DEFINE there == [i \in DOMAIN g.auths |->
                            IF i \in ChosenIn(g.auths, e) THEN WithPassword(g.auths[i], e.to)
                            ELSE g.auths[i]]
    <2>1. \A i \in DOMAIN g.auths : there[i] \in V
        BY <1>2, <1>5
    <2>2. DOMAIN there = DOMAIN g.auths /\ there = [i \in DOMAIN there |-> there[i]]
        OBVIOUS
    <2>3. Edited(g, e).auths = there
        BY <1>5, EditedAuths, Zenon
    <2> HIDE DEF there
    <2>4. there \in Seq(V)
        BY <2>1, <2>2, ReplaceIn
    <2> QED
        BY <1>1, <2>3, <2>4, Zenon
<1>6. CASE e.change = "rename"
    <2> DEFINE there == [i \in DOMAIN g.auths |->
                            IF i \in ChosenIn(g.auths, e) THEN WithAuthority(g.auths[i], e.to)
                            ELSE g.auths[i]]
    <2>1. \A i \in DOMAIN g.auths : there[i] \in V
        BY <1>2, <1>6
    <2>2. DOMAIN there = DOMAIN g.auths /\ there = [i \in DOMAIN there |-> there[i]]
        OBVIOUS
    <2>3. Edited(g, e).auths = there
        BY <1>6, EditedAuths, Zenon
    <2> HIDE DEF there
    <2>4. there \in Seq(V)
        BY <2>1, <2>2, ReplaceIn
    <2> QED
        BY <1>1, <2>3, <2>4, Zenon
<1>7. CASE e.change = "add"
    <2>1. Edited(g, e).auths = Append(g.auths, Typed(e))
        BY <1>7, EditedAuths, Zenon
    <2>2. Append(g.auths, Typed(e)) \in Seq(V)
        BY <1>7, AppendIn
    <2> QED
        BY <1>1, <2>1, <2>2, Zenon
<1> QED
    BY <1>1, <1>3, <1>4, <1>5, <1>6, <1>7, EditIs

LEMMA SeqMore ==
    ASSUME NEW S, NEW V, S \subseteq V, NEW q \in Seq(S)
    PROVE  q \in Seq(V)
OBVIOUS

LEMMA NewPassword ==
    ASSUME NEW a, NEW w, NEW s, NEW new
    PROVE  [[authority |-> a, password |-> w, source |-> s]
                  EXCEPT !.source = "ui", !.password = new] =
              [authority |-> a, password |-> new, source |-> "ui"]
<1>1. [[authority |-> a, password |-> w, source |-> s] EXCEPT !.source = "ui"] =
          [authority |-> a, password |-> w, source |-> "ui"]
    OBVIOUS
<1>2. [[authority |-> a, password |-> w, source |-> "ui"] EXCEPT !.password = new] =
          [authority |-> a, password |-> new, source |-> "ui"]
    OBVIOUS
<1> QED
    BY <1>1, <1>2, Zenon

\* A record of an entry with another password, or another authority.
LEMMA FieldsOf ==
    ASSUME NEW x, x = [authority |-> x.authority, password |-> x.password, source |-> x.source],
           NEW w
    PROVE  /\ WithPassword(x, w) = [authority |-> x.authority, password |-> w, source |-> x.source]
           /\ WithAuthority(x, w) = [authority |-> w, password |-> x.password, source |-> x.source]
<1>1. /\ [[authority |-> x.authority, password |-> x.password, source |-> x.source]
              EXCEPT !.password = w] = [authority |-> x.authority, password |-> w, source |-> x.source]
      /\ [[authority |-> x.authority, password |-> x.password, source |-> x.source]
              EXCEPT !.authority = w] = [authority |-> w, password |-> x.password, source |-> x.source]
    OBVIOUS
<1> QED
    BY <1>1, Zenon DEF WithPassword, WithAuthority

\* An edit of a configuration is a configuration.
LEMMA EditedConfig ==
    ASSUME NEW c, IsConfig(c), NEW e \in Edits
    PROVE  IsConfig(Edited(c, e))
<1>1. DOMAIN c = {"proxy", "auths"} /\ c.proxy \in Proxies /\ c.auths \in Seq(Entry)
    BY DEF IsConfig
<1>2. e.change = "add" => Typed(e) \in Entry
    BY EditIs DEF Typed, Entry
<1>3. ASSUME NEW i \in ChosenIn(c.auths, e)
      PROVE  /\ e.change = "password" => WithPassword(c.auths[i], e.to) \in Entry
             /\ e.change = "rename" => WithAuthority(c.auths[i], e.to) \in Entry
    <2> DEFINE x == c.auths[i]
    <2>1. x \in Entry
        BY <1>1 DEF ChosenIn
    <2> HIDE DEF x
    <2>2. /\ x = [authority |-> x.authority, password |-> x.password, source |-> x.source]
          /\ x.authority \in Authorities /\ x.password \in Secrets \union {""} /\ x.source = "ui"
        BY <2>1, EntryIs
    <2>3. /\ WithPassword(x, e.to) = [authority |-> x.authority, password |-> e.to, source |-> "ui"]
          /\ WithAuthority(x, e.to) = [authority |-> e.to, password |-> x.password, source |-> "ui"]
        BY <2>2, FieldsOf
    <2>4. ASSUME e.change = "password" PROVE WithPassword(x, e.to) \in Entry
        <3>1. e.to \in Secrets
            BY <2>4, EditIs
        <3>2. [authority |-> x.authority, password |-> e.to, source |-> "ui"] \in Entry
            BY <2>2, <3>1 DEF Entry
        <3> QED
            BY <2>3, <3>2, Zenon
    <2>5. ASSUME e.change = "rename" PROVE WithAuthority(x, e.to) \in Entry
        <3>1. e.to \in Authorities
            BY <2>5, EditIs
        <3>2. [authority |-> e.to, password |-> x.password, source |-> "ui"] \in Entry
            BY <2>2, <3>1 DEF Entry
        <3> QED
            BY <2>3, <3>2, Zenon
    <2> QED
        BY <2>4, <2>5 DEF x
<1>4. /\ DOMAIN Edited(c, e) = {"proxy", "auths"} /\ Edited(c, e).proxy \in Proxies
      /\ Edited(c, e).auths \in Seq(Entry)
    BY <1>1, <1>2, <1>3, EditedIs, Zenon
<1> QED
    BY <1>4 DEF IsConfig

\* What a request may hold, if b is what its client was shown: no password but the one
\* that the client has typed.
Sendable(b, e) ==
    {x \in [authority : Authorities, password : {""} \union Masks \union Secrets,
            source : {"ui", "mounted-secret"}] :
        \/ x.password \in {""} \union Masks
        \/ TypedFor(b, e, x.authority) /\ x.password = e.to /\ e.change \in {"add", "password"}}

Sent(b, e, mask) == WithMask(Edited(GetPublic(b), e), mask)

\* A mask is replaced by a mask, and the rest stays.
LEMMA MaskedIs ==
    ASSUME NEW g, DOMAIN g = {"proxy", "auths"}, NEW b, NEW e, g.auths \in Seq(Sendable(b, e)),
           NEW mask \in Masks
    PROVE  /\ DOMAIN WithMask(g, mask) = {"proxy", "auths"}
           /\ WithMask(g, mask).proxy = g.proxy
           /\ WithMask(g, mask).auths \in Seq(Sendable(b, e))
           /\ Len(WithMask(g, mask).auths) = Len(g.auths)
           /\ \A i \in 1..Len(g.auths) :
                 /\ WithMask(g, mask).auths[i].authority = g.auths[i].authority
                 /\ WithMask(g, mask).auths[i].source = g.auths[i].source
                 /\ WithMask(g, mask).auths[i].password =
                       IF g.auths[i].password \in Masks THEN mask ELSE g.auths[i].password
<1> DEFINE One(x) == IF x.password \in Masks THEN [x EXCEPT !.password = mask] ELSE x
           q      == [i \in DOMAIN g.auths |-> One(g.auths[i])]
           n      == Len(g.auths)
<1>1. DOMAIN g.auths = 1..n /\ n \in Nat /\ \A i \in 1..n : g.auths[i] \in Sendable(b, e)
    OBVIOUS
<1>2. ASSUME NEW x \in Sendable(b, e)
      PROVE  /\ One(x) \in Sendable(b, e) /\ One(x).authority = x.authority
             /\ One(x).source = x.source
             /\ One(x).password = IF x.password \in Masks THEN mask ELSE x.password
    <2>1. CASE x.password \notin Masks
        BY <2>1
    <2>2. CASE x.password \in Masks
        <3>0. x = [authority |-> x.authority, password |-> x.password, source |-> x.source]
            BY DEF Sendable
        <3>1. x.authority \in Authorities /\ x.source \in {"ui", "mounted-secret"}
            BY DEF Sendable
        <3>2. One(x) = [authority |-> x.authority, password |-> mask, source |-> x.source]
            <4>1. One(x) = [x EXCEPT !.password = mask]
                BY <2>2
            <4>2. [x EXCEPT !.password = mask] =
                      [authority |-> x.authority, password |-> mask, source |-> x.source]
                <5>1. [[authority |-> x.authority, password |-> x.password, source |-> x.source]
                            EXCEPT !.password = mask] =
                          [authority |-> x.authority, password |-> mask, source |-> x.source]
                    OBVIOUS
                <5> QED
                    BY <3>0, <5>1, Zenon
            <4> HIDE DEF One
            <4> QED
                BY <4>1, <4>2, Zenon
        <3> HIDE DEF One
        <3>3. [authority |-> x.authority, password |-> mask, source |-> x.source] \in Sendable(b, e)
            BY <3>1 DEF Sendable
        <3>4. One(x).authority = x.authority /\ One(x).source = x.source /\ One(x).password = mask
            BY <3>2
        <3> QED
            BY <2>2, <3>2, <3>3, <3>4, Zenon
    <2> QED
        BY <2>1, <2>2
<1>3. WithMask(g, mask) = [g EXCEPT !.auths = q]
    BY DEF WithMask
<1> HIDE DEF One
<1>4. /\ q \in Seq(Sendable(b, e)) /\ Len(q) = n /\ \A i \in 1..n : q[i] = One(g.auths[i])
    BY <1>1, <1>2
<1> HIDE DEF q
<1>5. /\ DOMAIN WithMask(g, mask) = {"proxy", "auths"} /\ WithMask(g, mask).auths = q
      /\ WithMask(g, mask).proxy = g.proxy
    BY <1>3
<1> QED
    BY <1>1, <1>2, <1>4, <1>5

LEMMA SentIs ==
    ASSUME NEW b, IsConfig(b), NEW e \in Edits, NEW mask \in Masks
    PROVE  /\ DOMAIN Edited(GetPublic(b), e) = {"proxy", "auths"}
           /\ Edited(GetPublic(b), e).proxy \in Proxies
           /\ Edited(GetPublic(b), e).auths \in Seq(Sendable(b, e))
           /\ DOMAIN Sent(b, e, mask) = {"proxy", "auths"} /\ Sent(b, e, mask).proxy \in Proxies
           /\ Sent(b, e, mask).auths \in Seq(Sendable(b, e))
<1> DEFINE g == GetPublic(b)
<1>1. Shown \subseteq Sendable(b, e)
    BY DEF Shown, Sendable, Masks
<1>2. /\ DOMAIN g = {"proxy", "auths"} /\ g.proxy \in Proxies /\ g.auths \in Seq(Shown)
      /\ g.auths \in Seq(Sendable(b, e))
    <2>1. b.proxy \in Proxies /\ g.auths \in Seq(Shown)
        BY PublicIs DEF IsConfig
    <2>2. g.auths \in Seq(Sendable(b, e))
        BY <1>1, <2>1, SeqMore, Zenon
    <2>3. DOMAIN g = {"proxy", "auths"} /\ g.proxy = b.proxy
        BY PublicIs
    <2> QED
        BY <2>1, <2>2, <2>3, Zenon
<1>3. e.change = "add" => Typed(e) \in Sendable(b, e)
    BY EditIs DEF Sendable, TypedFor, Typed
<1>4. ASSUME NEW i \in ChosenIn(g.auths, e)
      PROVE  /\ g.auths[i] \in Shown /\ i \in DOMAIN b.auths /\ i = e.entry
             /\ g.auths[i].authority = b.auths[i].authority
             /\ g.auths[i] = [authority |-> g.auths[i].authority, password |-> g.auths[i].password,
                              source |-> g.auths[i].source]
    <2>1. DOMAIN g.auths = 1..Len(g.auths) /\ \A k \in 1..Len(g.auths) : g.auths[k] \in Shown
        <3> HIDE DEF g
        <3> QED
            BY <1>2
    <2>2. i \in 1..Len(g.auths) /\ g.auths[i].source = "ui" /\ i = e.entry
        BY <2>1 DEF ChosenIn
    <2>3. i \in 1..Len(b.auths) /\ DOMAIN b.auths = 1..Len(b.auths)
        BY <2>2, PublicIs, AuthsAre
    <2>4. g.auths[i].authority = b.auths[i].authority
        BY <2>3, PublicIs
    <2> HIDE DEF g
    <2> QED
        BY <2>1, <2>2, <2>3, <2>4, ShownIs
<1> HIDE DEF g
<1>5. ASSUME e.change = "password", NEW i \in ChosenIn(g.auths, e)
      PROVE  WithPassword(g.auths[i], e.to) \in Sendable(b, e)
    <2>1. e.to \in Secrets
        BY <1>5, EditIs
    <2>2. TypedFor(b, e, g.auths[i].authority)
        BY <1>4, <1>5 DEF TypedFor
    <2>3. g.auths[i].authority \in Authorities /\ g.auths[i].source \in {"ui", "mounted-secret"}
        BY <1>4, <1>5 DEF Shown
    <2>4. WithPassword(g.auths[i], e.to) =
              [authority |-> g.auths[i].authority, password |-> e.to, source |-> g.auths[i].source]
        BY <1>4, <1>5, FieldsOf
    <2>5. [authority |-> g.auths[i].authority, password |-> e.to, source |-> g.auths[i].source]
              \in Sendable(b, e)
        BY <1>5, <2>1, <2>2, <2>3 DEF Sendable
    <2> QED
        BY <2>4, <2>5
<1>6. ASSUME e.change = "rename", NEW i \in ChosenIn(g.auths, e)
      PROVE  WithAuthority(g.auths[i], e.to) \in Sendable(b, e)
    <2>1. e.to \in Authorities
        BY <1>6, EditIs
    <2>2. g.auths[i].password \in {"", "********"} /\ g.auths[i].source \in {"ui", "mounted-secret"}
        BY <1>4, <1>6 DEF Shown
    <2>3. WithAuthority(g.auths[i], e.to) =
              [authority |-> e.to, password |-> g.auths[i].password, source |-> g.auths[i].source]
        BY <1>4, <1>6, FieldsOf
    <2>4. [authority |-> e.to, password |-> g.auths[i].password, source |-> g.auths[i].source] \in Shown
        BY <2>1, <2>2 DEF Shown
    <2> QED
        BY <1>1, <2>3, <2>4
<1>7. /\ DOMAIN Edited(g, e) = {"proxy", "auths"} /\ Edited(g, e).proxy \in Proxies
      /\ Edited(g, e).auths \in Seq(Sendable(b, e))
    BY <1>2, <1>3, <1>5, <1>6, EditedIs, Zenon
<1> QED
    BY <1>7, MaskedIs, Zenon DEF Sent, g

\* What Save makes of a request.
LEMMA CleanIs ==
    ASSUME NEW c, IsConfig(c), NEW b, NEW e \in Edits, NEW sent, DOMAIN sent = {"proxy", "auths"},
           sent.proxy \in Proxies, sent.auths \in Seq(Sendable(b, e))
    PROVE  /\ IsConfig(Clean(sent, c)) /\ Clean(sent, c).proxy = sent.proxy
           /\ UiAuths(sent.auths) \in Seq(Sendable(b, e))
           /\ Len(Clean(sent, c).auths) = Len(UiAuths(sent.auths))
           /\ \A i \in 1..Len(UiAuths(sent.auths)) :
                 /\ Clean(sent, c).auths[i].authority = UiAuths(sent.auths)[i].authority
                 /\ Clean(sent, c).auths[i].password =
                       IF UiAuths(sent.auths)[i].password \in Masks
                       THEN StoredPassword(c, UiAuths(sent.auths)[i].authority)
                       ELSE UiAuths(sent.auths)[i].password
<1> DEFINE Unmasked(x) ==
               [x EXCEPT !.source = "ui",
                         !.password = IF @ \in Masks THEN StoredPassword(c, x.authority) ELSE @]
           Plain(x) == IF x.password \in Masks THEN StoredPassword(c, x.authority) ELSE x.password
           ui == UiAuths(sent.auths)
           q  == [i \in DOMAIN ui |-> Unmasked(ui[i])]
<1>1. ui \in Seq(Sendable(b, e))
    <2>1. {i \in DOMAIN sent.auths : sent.auths[i].source # "mounted-secret"}
              \in SUBSET (1..Len(sent.auths))
        OBVIOUS
    <2> QED
        BY <2>1, KeptIs, Zenon DEF UiAuths
<1>2. ASSUME NEW a PROVE StoredPassword(c, a) \in Secrets \union {""}
    <2>1. CASE At(c.auths, a) = {}
        BY <2>1, StoredIs
    <2>2. CASE At(c.auths, a) # {}
        <3>1. PICK i \in At(c.auths, a) : StoredPassword(c, a) = c.auths[i].password
            BY <2>2, StoredIs
        <3>2. c.auths[i] \in Entry
            BY AuthsAre DEF At
        <3>3. c.auths[i].password \in Secrets \union {""}
            BY <3>2, EntryIs
        <3> QED
            BY <3>1, <3>3
    <2> QED
        BY <2>1, <2>2
<1>3. ASSUME NEW x \in Sendable(b, e)
      PROVE  /\ Unmasked(x) \in Entry /\ Unmasked(x).authority = x.authority
             /\ Unmasked(x).password = Plain(x)
    <2>1. /\ x = [authority |-> x.authority, password |-> x.password, source |-> x.source]
          /\ x.authority \in Authorities
        BY DEF Sendable
    <2>2. Plain(x) \in Secrets \union {""}
        <3>1. x.password \in Masks \/ x.password = "" \/ x.password \in Secrets
            BY EditIs DEF Sendable
        <3> QED
            BY <1>2, <3>1
    <2> HIDE DEF Plain
    <2>3. Unmasked(x) = [x EXCEPT !.source = "ui", !.password = Plain(x)]
        BY Zenon DEF Plain
    <2> HIDE DEF Unmasked
    <2>5. Unmasked(x) = [authority |-> x.authority, password |-> Plain(x), source |-> "ui"]
        BY <2>1, <2>3, NewPassword, Zenon
    <2>6. [authority |-> x.authority, password |-> Plain(x), source |-> "ui"] \in Entry
        BY <2>1, <2>2 DEF Entry
    <2>7. Unmasked(x).authority = x.authority /\ Unmasked(x).password = Plain(x)
        BY <2>5
    <2> QED
        BY <2>5, <2>6, <2>7, Zenon
<1>4. Clean(sent, c) = [sent EXCEPT !.auths = q]
    BY DEF Clean
<1> HIDE DEF Unmasked, Plain, ui
<1>5. /\ q \in Seq(Entry) /\ Len(q) = Len(ui)
      /\ \A i \in 1..Len(ui) : q[i] = Unmasked(ui[i]) /\ ui[i] \in Sendable(b, e)
    BY <1>1, <1>3
<1> HIDE DEF q
<1>6. /\ DOMAIN Clean(sent, c) = {"proxy", "auths"} /\ Clean(sent, c).auths = q
      /\ Clean(sent, c).proxy = sent.proxy
    BY <1>4
<1>7. IsConfig(Clean(sent, c))
    BY <1>5, <1>6 DEF IsConfig
<1>8. \A i \in 1..Len(ui) : q[i].authority = ui[i].authority /\ q[i].password = Plain(ui[i])
    BY <1>3, <1>5
<1> QED
    BY <1>1, <1>5, <1>6, <1>7, <1>8 DEF ui, Plain

-----------------------------------------------------------------------------
(* The types.                                                              *)

\* What a request goes by: it edits a configuration, at a pod, with what it has copied.
Requests ==
    \A c \in Clients :
        /\ step[c] = "away" => edit[c] = None
        /\ step[c] = "editing" => IsConfig(base[c]) /\ edit[c] \in Edits
        /\ step[c] \notin {"away", "editing"} => at[c] \in Pods
        /\ step[c] \in {"http", "https"} => snapshot[c] \in Proxies

Types == TypeOK /\ Requests

LEMMA Constants ==
    /\ Seed \in Proxies /\ IsConfig(FirstConfig) /\ MaxFaults \in Nat /\ MaxCrashes \in Nat
BY ConfigAssumption, Zenon

LEMMA LoadedIs ==
    ASSUME TypeOK
    PROVE  IsConfig(Loaded)
<1>1. IsConfig(Seeded)
    BY Constants DEF IsConfig, Seeded
<1> QED
    BY <1>1 DEF Loaded, TypeOK

LEMMA InitTypes == Init => Types
<1> SUFFICES ASSUME Init PROVE Types
    OBVIOUS
<1>1. file.state \in {"absent", "empty", "damaged"} \/ (file.state = "whole" /\ IsConfig(file.config))
    BY Constants DEF Init
<1>2. IsConfig(Loaded) /\ Loaded.proxy \in Proxies
    BY <1>1, Constants DEF Loaded, Seeded, IsConfig
<1>3. /\ DOMAIN config = Pods /\ \A p \in Pods : IsConfig(config[p])
      /\ env \in [Pods -> [Keys -> Proxies]]
    BY <1>2 DEF Init
<1>4. /\ up \subseteq Pods
      /\ step \in [Clients -> {"away", "editing", "open", "write", "snapshot", "http",
                               "https", "answered", "cut"}]
      /\ at \in [Clients -> Pods \union {Nobody}]
      /\ DOMAIN base = Clients
      /\ edit \in [Clients -> Edits \union {None}]
      /\ snapshot \in [Clients -> Proxies \union {None}]
      /\ DOMAIN creds = Scans
    BY DEF Init
<1>5. /\ lastSaver \in Pods \union {Nobody} /\ torn \in BOOLEAN /\ overlapped \subseteq Pods
      /\ faults \in 0..MaxFaults /\ crashes \in 0..MaxCrashes
    <2>1. lastSaver = Nobody /\ torn = FALSE /\ overlapped = {} /\ faults = 0 /\ crashes = 0
        BY Zenon DEF Init
    <2>2. MaxFaults \in Nat /\ MaxCrashes \in Nat
        BY Constants
    <2>3. torn \in BOOLEAN /\ overlapped \subseteq Pods /\ lastSaver \in Pods \union {Nobody}
        BY <2>1, Zenon
    <2>4. faults \in 0..MaxFaults /\ crashes \in 0..MaxCrashes
        BY <2>1, <2>2
    <2> QED
        BY <2>3, <2>4, Zenon
<1>6. Requests
    BY DEF Init, Requests
<1> QED
    BY <1>1, <1>3, <1>4, <1>5, <1>6 DEF Types, TypeOK

LEMMA GetTypes ==
    ASSUME Types, NEW c \in Clients, NEW p \in Pods, NEW e \in Edits, Get(c, p, e)
    PROVE  Types'
<1>1. /\ step' = [step EXCEPT ![c] = "editing"] /\ base' = [base EXCEPT ![c] = config[p]]
      /\ edit' = [edit EXCEPT ![c] = e]
      /\ UNCHANGED <<up, config, env, file, at, snapshot, creds, lastSaver, torn, overlapped,
                     faults, crashes>>
    BY DEF Get, Goto, histVars
<1>2. /\ IsConfig(config[p]) /\ DOMAIN base = Clients
      /\ step \in [Clients -> {"away", "editing", "open", "write", "snapshot", "http",
                               "https", "answered", "cut"}]
      /\ edit \in [Clients -> Edits \union {None}]
    BY DEF Types, TypeOK
<1>3. /\ step' \in [Clients -> {"away", "editing", "open", "write", "snapshot", "http",
                                "https", "answered", "cut"}]
      /\ edit' \in [Clients -> Edits \union {None}] /\ DOMAIN base' = Clients
    BY <1>1, <1>2
<1>4. TypeOK'
    BY <1>1, <1>3 DEF Types, TypeOK
<1>5. Requests'
    BY <1>1, <1>2 DEF Types, Requests
<1> QED
    BY <1>4, <1>5 DEF Types

LEMMA SaveTypes ==
    ASSUME Types, NEW c \in Clients, NEW p \in Pods, NEW mask \in Masks, Save(c, p, mask)
    PROVE  Types'
<1>1. /\ step[c] = "editing" /\ step' = [step EXCEPT ![c] = "open"] /\ at' = [at EXCEPT ![c] = p]
      /\ config' = [config EXCEPT ![p] = Clean(Sent(base[c], edit[c], mask), config[p])]
      /\ overlapped' = IF \E d \in Clients : Applying(d, p) THEN overlapped \union {p}
                       ELSE overlapped \ {p}
      /\ UNCHANGED <<up, env, file, base, edit, snapshot, creds, lastSaver, torn,
                     faults, crashes>>
    BY DEF Save, Goto, Sent
<1>2. /\ DOMAIN config = Pods /\ \A q \in Pods : IsConfig(config[q])
      /\ step \in [Clients -> {"away", "editing", "open", "write", "snapshot", "http",
                               "https", "answered", "cut"}]
      /\ at \in [Clients -> Pods \union {Nobody}] /\ overlapped \subseteq Pods
      /\ IsConfig(base[c]) /\ edit[c] \in Edits
    BY <1>1 DEF Types, TypeOK, Requests
<1>3. IsConfig(Clean(Sent(base[c], edit[c], mask), config[p]))
    <2>1. /\ DOMAIN Sent(base[c], edit[c], mask) = {"proxy", "auths"}
          /\ Sent(base[c], edit[c], mask).proxy \in Proxies
          /\ Sent(base[c], edit[c], mask).auths \in Seq(Sendable(base[c], edit[c]))
        BY <1>2, SentIs
    <2> QED
        BY <1>2, <2>1, CleanIs
<1>4. DOMAIN config' = Pods /\ \A q \in Pods : IsConfig(config'[q])
    BY <1>1, <1>2, <1>3
<1>5. /\ step' \in [Clients -> {"away", "editing", "open", "write", "snapshot", "http",
                                "https", "answered", "cut"}]
      /\ at' \in [Clients -> Pods \union {Nobody}] /\ overlapped' \subseteq Pods
    BY <1>1, <1>2
<1>6. TypeOK'
    BY <1>1, <1>4, <1>5 DEF Types, TypeOK
<1>7. Requests'
    BY <1>1, <1>2 DEF Types, Requests
<1> QED
    BY <1>6, <1>7 DEF Types

LEMMA FileTypes ==
    ASSUME Types, NEW c \in Clients, OpenFile(c) \/ WriteFile(c)
    PROVE  Types'
<1>1. /\ step[c] \in {"open", "write"}
      /\ step' = [step EXCEPT ![c] = "write"] \/ step' = [step EXCEPT ![c] = "snapshot"]
      /\ UNCHANGED <<up, config, env, at, base, edit, snapshot, creds, overlapped, crashes>>
    BY DEF OpenFile, WriteFile, Goto
<1>2. at[c] \in Pods /\ \A p \in Pods : IsConfig(config[p])
    BY <1>1 DEF Types, TypeOK, Requests
<1>3. /\ file'.state \in {"absent", "empty", "damaged"} \/ (file'.state = "whole" /\ IsConfig(file'.config))
      /\ torn' \in BOOLEAN /\ lastSaver' \in Pods \union {Nobody} /\ faults' \in 0..MaxFaults
    <2>1. faults \in 0..MaxFaults /\ torn \in BOOLEAN /\ lastSaver \in Pods \union {Nobody}
          /\ (file.state \in {"absent", "empty", "damaged"} \/ (file.state = "whole" /\ IsConfig(file.config)))
        BY DEF Types, TypeOK
    <2>2. Fault => faults' \in 0..MaxFaults
        BY <2>1, Constants DEF Fault
    <2>3. CASE OpenFile(c)
        <3>1. file' = [state |-> "empty"] \/ file' = file
            BY <2>3 DEF OpenFile
        <3>2. lastSaver' = lastSaver /\ torn' \in BOOLEAN /\ faults' \in 0..MaxFaults
            BY <2>1, <2>2, <2>3, Zenon DEF OpenFile
        <3> QED
            BY <2>1, <3>1, <3>2
    <2>4. CASE WriteFile(c)
        <3>1. \/ file' = [state |-> "whole", config |-> config[at[c]]]
              \/ file' = [state |-> "damaged"]
            BY <2>4 DEF WriteFile, Written
        <3>2. torn' \in BOOLEAN
            BY <2>4, Zenon DEF WriteFile
        <3>3. lastSaver' = at[c] /\ faults' \in 0..MaxFaults
            BY <2>1, <2>2, <2>4 DEF WriteFile
        <3> QED
            BY <1>2, <3>1, <3>2, <3>3
    <2> QED
        BY <2>3, <2>4
<1>4. step' \in [Clients -> {"away", "editing", "open", "write", "snapshot", "http",
                             "https", "answered", "cut"}]
    BY <1>1 DEF Types, TypeOK
<1>5. TypeOK'
    BY <1>1, <1>3, <1>4 DEF Types, TypeOK
<1>6. Requests'
    BY <1>1, <1>2 DEF Types, TypeOK, Requests
<1> QED
    BY <1>5, <1>6 DEF Types

LEMMA ExportTypes ==
    ASSUME Types, NEW c \in Clients, Snapshot(c) \/ SetHTTP(c) \/ SetHTTPS(c)
    PROVE  Types'
<1>1. /\ step[c] \in {"snapshot", "http", "https"}
      /\ \E to \in {"http", "https", "answered"} : step' = [step EXCEPT ![c] = to]
                                                  /\ (to = "https" => step[c] = "http")
      /\ UNCHANGED <<up, config, file, at, base, edit, creds, lastSaver, torn, overlapped,
                     faults, crashes>>
    BY DEF Snapshot, SetHTTP, SetHTTPS, SetEnv, Goto, histVars
<1>2. /\ at[c] \in Pods /\ \A p \in Pods : IsConfig(config[p]) /\ config[p].proxy \in Proxies
      /\ env \in [Pods -> [Keys -> Proxies]] /\ snapshot \in [Clients -> Proxies \union {None}]
      /\ step \in [Clients -> {"away", "editing", "open", "write", "snapshot", "http",
                               "https", "answered", "cut"}]
    BY <1>1 DEF Types, TypeOK, Requests, IsConfig
<1>3. /\ step' \in [Clients -> {"away", "editing", "open", "write", "snapshot", "http",
                                "https", "answered", "cut"}]
      /\ step'[c] \notin {"away", "editing"} /\ \A d \in Clients \ {c} : step'[d] = step[d]
    BY <1>1, <1>2
<1>4. CASE Snapshot(c)
    <2>1. step'[c] = "http" /\ env' = env /\ snapshot' = [snapshot EXCEPT ![c] = config[at[c]].proxy]
        BY <1>2, <1>4 DEF Snapshot, Goto
    <2>2. snapshot' \in [Clients -> Proxies \union {None}]
        BY <1>2, <2>1
    <2>3. TypeOK'
        BY <1>1, <1>3, <2>1, <2>2 DEF Types, TypeOK
    <2>4. Requests'
        BY <1>1, <1>2, <1>3, <2>1 DEF Types, Requests
    <2> QED
        BY <2>3, <2>4 DEF Types
<1>5. CASE SetHTTP(c) \/ SetHTTPS(c)
    <2>1. PICK k \in Keys : env' = [env EXCEPT ![at[c]][k] = snapshot[c]]
        BY <1>5 DEF SetHTTP, SetHTTPS, SetEnv, Keys
    <2>2. snapshot' = snapshot /\ step[c] \in {"http", "https"}
        BY <1>5 DEF SetHTTP, SetHTTPS, SetEnv
    <2>3. snapshot[c] \in Proxies
        BY <2>2 DEF Types, Requests
    <2>4. env' \in [Pods -> [Keys -> Proxies]]
        BY <1>2, <2>1, <2>3
    <2>5. TypeOK'
        BY <1>1, <1>3, <2>2, <2>4 DEF Types, TypeOK
    <2>6. Requests'
        BY <1>1, <1>2, <1>3, <2>2, <2>3 DEF Types, Requests
    <2> QED
        BY <2>5, <2>6 DEF Types
<1> QED
    BY <1>4, <1>5

LEMMA PodTypes ==
    ASSUME Types, NEW p \in Pods, Die(p) \/ Start(p) \/ \E s \in Scans : RunScan(s, p)
    PROVE  Types'
<1>1. CASE Die(p)
    <2>1. /\ up' = up \ {p} /\ crashes < MaxCrashes /\ crashes' = crashes + 1
          /\ step' = [c \in Clients |-> IF InSave(c, p) \/ Applying(c, p) THEN "cut" ELSE step[c]]
          /\ UNCHANGED <<config, env, file, at, base, edit, snapshot, creds, lastSaver,
                         overlapped, faults>>
        BY <1>1 DEF Die
    <2>2. torn' \in BOOLEAN
        BY <1>1, Zenon DEF Die
    <2>3. up' \subseteq Pods /\ crashes' \in 0..MaxCrashes
        BY <2>1, Constants DEF Types, TypeOK
    <2>4. step' \in [Clients -> {"away", "editing", "open", "write", "snapshot", "http",
                                 "https", "answered", "cut"}]
        BY <2>1 DEF Types, TypeOK
    <2>5. TypeOK'
        BY <2>1, <2>2, <2>3, <2>4 DEF Types, TypeOK
    <2>6. Requests'
        BY <2>1 DEF Types, Requests, InSave, Applying
    <2> QED
        BY <2>5, <2>6 DEF Types
<1>2. CASE Start(p)
    <2>1. /\ up' = up \union {p} /\ config' = [config EXCEPT ![p] = Loaded]
          /\ env' = [env EXCEPT ![p] = [k \in Keys |-> Loaded.proxy]]
          /\ overlapped' = overlapped \ {p}
          /\ UNCHANGED <<file, step, at, base, edit, snapshot, creds, lastSaver, torn,
                         faults, crashes>>
        BY <1>2 DEF Start, saveVars
    <2>2. IsConfig(Loaded) /\ Loaded.proxy \in Proxies
        BY LoadedIs DEF Types, IsConfig
    <2>3. /\ DOMAIN config' = Pods /\ \A q \in Pods : IsConfig(config'[q])
          /\ env' \in [Pods -> [Keys -> Proxies]]
          /\ up' \subseteq Pods /\ overlapped' \subseteq Pods
        BY <2>1, <2>2 DEF Types, TypeOK
    <2>4. TypeOK'
        BY <2>1, <2>3 DEF Types, TypeOK
    <2>5. Requests'
        BY <2>1 DEF Types, Requests
    <2> QED
        BY <2>4, <2>5 DEF Types
<1>3. CASE \E s \in Scans : RunScan(s, p)
    <2>1. /\ DOMAIN creds' = Scans
          /\ UNCHANGED <<up, config, env, file, step, at, base, edit, snapshot, lastSaver,
                         torn, overlapped, faults, crashes>>
        BY <1>3 DEF RunScan, saveVars, histVars, Types, TypeOK
    <2>2. TypeOK'
        BY <2>1 DEF Types, TypeOK
    <2>3. Requests'
        BY <2>1 DEF Types, Requests
    <2> QED
        BY <2>2, <2>3 DEF Types
<1> QED
    BY <1>1, <1>2, <1>3

LEMMA AlwaysTypes == Spec => []Types
<1>1. ASSUME Types, [Next]_vars PROVE Types'
    <2>1. CASE UNCHANGED vars
        BY <1>1, <2>1 DEF vars, saveVars, histVars, Types, TypeOK, Requests
    <2>2. CASE Next
        BY <1>1, <2>2, GetTypes, SaveTypes, FileTypes, ExportTypes, PodTypes DEF Next
    <2> QED
        BY <1>1, <2>1, <2>2
<1> QED
    BY <1>1, InitTypes, PTL DEF Spec

\* Every variable keeps its type: whatever edits clients make of what they were shown,
\* what is stored are entries of their own, with a password and never with a mask.
THEOREM StoredArePasswords == Spec => []TypeOK
<1>1. Types => TypeOK
    BY DEF Types
<1> QED
    BY <1>1, AlwaysTypes, PTL

-----------------------------------------------------------------------------
(* The credentials of a scan.                                              *)

Known(c) == \A i \in DOMAIN c.auths : c.auths[i].password \in StoredFor(c.auths[i].authority)

\* A password in a configuration is one that somebody has stored for its authority.
AllKnown ==
    /\ \A p \in Pods : Known(config[p])
    /\ file.state = "whole" => Known(file.config)

\* StoredFor, when the clients have read bs and are making the edits ed.
StoredWith(a, bs, ed) ==
    {"", IF a \in DOMAIN Mounted THEN Mounted[a] ELSE ""}
    \union {FirstConfig.auths[i].password : i \in
              {j \in DOMAIN FirstConfig.auths : FirstConfig.auths[j].authority = a}}
    \union {ed[c].to : c \in {d \in Clients : ed[d] # None /\ TypedFor(bs[d], ed[d], a)}}

LEMMA StoredForIs ==
    ASSUME NEW a
    PROVE  /\ "" \in StoredFor(a)
           /\ a \in DOMAIN Mounted => Mounted[a] \in StoredFor(a)
           /\ \A i \in DOMAIN FirstConfig.auths :
                 FirstConfig.auths[i].authority = a => FirstConfig.auths[i].password \in StoredFor(a)
           /\ \A c \in Clients : edit[c] # None /\ TypedFor(base[c], edit[c], a)
                 => edit[c].to \in StoredFor(a)
BY DEF StoredFor

\* Nothing is forgotten of it.
LEMMA StoredForGrows ==
    ASSUME NEW a, NEW bs, NEW ed,
           \A c \in Clients : (ed[c] = edit[c] /\ bs[c] = base[c]) \/ edit[c] = None
    PROVE  StoredFor(a) \subseteq StoredWith(a, bs, ed)
<1> DEFINE had == {c \in Clients : edit[c] # None /\ TypedFor(base[c], edit[c], a)}
           has == {c \in Clients : ed[c] # None /\ TypedFor(bs[c], ed[c], a)}
<1>1. {edit[c].to : c \in had} \subseteq {ed[c].to : c \in has}
    <2>1. \A c \in had : c \in has /\ ed[c] = edit[c]
        OBVIOUS
    <2> QED
        BY <2>1
<1> QED
    BY <1>1 DEF StoredFor, StoredWith

\* A client reads once, and edits once.
LEMMA EditsStay ==
    ASSUME Types, [Next]_vars
    PROVE  \A c \in Clients : (edit'[c] = edit[c] /\ base'[c] = base[c]) \/ edit[c] = None
<1>1. CASE edit' = edit /\ base' = base
    BY <1>1
<1>2. ASSUME NEW c \in Clients, NEW p \in Pods, NEW e \in Edits, Get(c, p, e)
      PROVE  \A d \in Clients : (edit'[d] = edit[d] /\ base'[d] = base[d]) \/ edit[d] = None
    <2>1. /\ edit[c] = None /\ edit' = [edit EXCEPT ![c] = e]
          /\ base' = [base EXCEPT ![c] = config[p]]
        BY <1>2 DEF Get, Types, Requests
    <2> QED
        BY <2>1 DEF Types, TypeOK
<1>3. ASSUME NEW c \in Clients, NEW p \in Pods, NEW mask \in Masks, Save(c, p, mask)
      PROVE  edit' = edit /\ base' = base
    BY <1>3 DEF Save
<1>4. ASSUME NEW c \in Clients,
             OpenFile(c) \/ WriteFile(c) \/ Snapshot(c) \/ SetHTTP(c) \/ SetHTTPS(c)
      PROVE  edit' = edit /\ base' = base
    BY <1>4 DEF OpenFile, WriteFile, Snapshot, SetHTTP, SetHTTPS, SetEnv
<1>5. ASSUME NEW p \in Pods, Die(p) \/ Start(p) \/ \E s \in Scans : RunScan(s, p)
      PROVE  edit' = edit /\ base' = base
    BY <1>5 DEF Die, Start, RunScan, saveVars
<1>6. CASE UNCHANGED vars
    BY <1>6 DEF vars, saveVars
<1> QED
    BY <1>1, <1>2, <1>3, <1>4, <1>5, <1>6 DEF Next

LEMMA PasswordIsKnown ==
    ASSUME NEW c, IsConfig(c), Known(c), NEW a
    PROVE  StoredPassword(c, a) \in StoredFor(a)
<1>1. CASE At(c.auths, a) = {}
    BY <1>1, StoredIs, StoredForIs
<1>2. CASE At(c.auths, a) # {}
    <2>1. PICK i \in At(c.auths, a) : StoredPassword(c, a) = c.auths[i].password
        BY <1>2, StoredIs
    <2> QED
        BY <2>1 DEF At, Known
<1> QED
    BY <1>1, <1>2

\* Save stores what was stored there, or what its client has typed.
LEMMA SaveIsKnown ==
    ASSUME Types, AllKnown, NEW c \in Clients, NEW p \in Pods, NEW mask \in Masks,
           Save(c, p, mask)
    PROVE  /\ config' = [config EXCEPT ![p] = Clean(Sent(base[c], edit[c], mask), config[p])]
           /\ Known(Clean(Sent(base[c], edit[c], mask), config[p]))
<1> DEFINE sent == Sent(base[c], edit[c], mask)
           new  == Clean(sent, config[p])
           ui   == UiAuths(sent.auths)
<1>1. config' = [config EXCEPT ![p] = new]
    BY DEF Save, Sent
<1>2. IsConfig(base[c]) /\ edit[c] \in Edits /\ IsConfig(config[p]) /\ Known(config[p])
    BY DEF Types, TypeOK, Requests, Save, AllKnown
<1>3. /\ DOMAIN sent = {"proxy", "auths"} /\ sent.proxy \in Proxies
      /\ sent.auths \in Seq(Sendable(base[c], edit[c]))
    BY <1>2, SentIs
<1> HIDE DEF sent
<1>4. /\ IsConfig(new) /\ ui \in Seq(Sendable(base[c], edit[c])) /\ Len(new.auths) = Len(ui)
      /\ \A i \in 1..Len(ui) :
            /\ new.auths[i].authority = ui[i].authority
            /\ new.auths[i].password = IF ui[i].password \in Masks
                                       THEN StoredPassword(config[p], ui[i].authority)
                                       ELSE ui[i].password
    BY <1>2, <1>3, CleanIs
<1> HIDE DEF new, ui
<1>5. DOMAIN new.auths = 1..Len(ui) /\ \A i \in 1..Len(ui) : ui[i] \in Sendable(base[c], edit[c])
    BY <1>4, AuthsAre
<1>6. ASSUME NEW i \in 1..Len(ui)
      PROVE  new.auths[i].password \in StoredFor(new.auths[i].authority)
    <2> DEFINE a == ui[i].authority
    <2>1. StoredPassword(config[p], a) \in StoredFor(a) /\ "" \in StoredFor(a)
        BY <1>2, PasswordIsKnown, StoredForIs
    <2>2. ui[i].password \in Masks \/ ui[i].password = ""
             \/ (TypedFor(base[c], edit[c], a) /\ ui[i].password = edit[c].to)
        BY <1>5 DEF Sendable
    <2>3. edit[c] # None
        BY <1>2, ConfigAssumption, Zenon
    <2>4. TypedFor(base[c], edit[c], a) => edit[c].to \in StoredFor(a)
        BY <2>3, StoredForIs
    <2> HIDE DEF a
    <2>5. new.auths[i].authority = a
        BY <1>4 DEF a
    <2>6. new.auths[i].password = IF ui[i].password \in Masks
                                  THEN StoredPassword(config[p], a) ELSE ui[i].password
        BY <1>4 DEF a
    <2> QED
        BY <2>1, <2>2, <2>4, <2>5, <2>6
<1>7. Known(new)
    BY <1>5, <1>6 DEF Known
<1> QED
    BY <1>1, <1>7 DEF new, sent

LEMMA KnownKept ==
    ASSUME Types, AllKnown, [Next]_vars
    PROVE  AllKnown'
<1>1. \A a : StoredFor(a) \subseteq StoredWith(a, base', edit')
    BY EditsStay, StoredForGrows
<1> DEFINE Kn(c) == \A i \in DOMAIN c.auths :
                       c.auths[i].password \in StoredWith(c.auths[i].authority, base', edit')
<1>2. \A c : Known(c) => Kn(c)
    BY <1>1 DEF Known
<1>3. SUFFICES /\ \A p \in Pods : Kn(config'[p])
               /\ file'.state = "whole" => Kn(file'.config)
    BY Zenon DEF AllKnown, Known, StoredFor, StoredWith
<1> HIDE DEF Kn
<1>4. CASE config' = config /\ file' = file
    BY <1>2, <1>4 DEF AllKnown
<1>5. ASSUME NEW c \in Clients, NEW p \in Pods, NEW mask \in Masks, Save(c, p, mask)
      PROVE  (\A q \in Pods : Kn(config'[q])) /\ (file'.state = "whole" => Kn(file'.config))
    <2>1. file' = file /\ DOMAIN config = Pods
        BY <1>5 DEF Save, Types, TypeOK
    <2>2. \A q \in Pods : Known(config'[q])
        BY <1>5, <2>1, SaveIsKnown DEF AllKnown
    <2> QED
        BY <1>2, <2>1, <2>2 DEF AllKnown
<1>6. ASSUME NEW c \in Clients, OpenFile(c) \/ WriteFile(c)
      PROVE  (\A q \in Pods : Kn(config'[q])) /\ (file'.state = "whole" => Kn(file'.config))
    <2>1. config' = config /\ (step[c] = "write" => at[c] \in Pods)
        BY <1>6 DEF OpenFile, WriteFile, Types, Requests
    <2>2. \/ file' = file \/ file' = [state |-> "empty"] \/ file' = [state |-> "damaged"]
          \/ step[c] = "write" /\ file' = [state |-> "whole", config |-> config[at[c]]]
        BY <1>6 DEF OpenFile, WriteFile, Written
    <2> QED
        BY <1>2, <2>1, <2>2 DEF AllKnown
<1>7. ASSUME NEW p \in Pods, Start(p)
      PROVE  (\A q \in Pods : Kn(config'[q])) /\ (file'.state = "whole" => Kn(file'.config))
    <2>1. config' = [config EXCEPT ![p] = Loaded] /\ file' = file /\ DOMAIN config = Pods
        BY <1>7 DEF Start, Types, TypeOK
    <2>2. Known(Loaded)
        BY DEF Loaded, Seeded, Known, AllKnown
    <2> QED
        BY <1>2, <2>1, <2>2 DEF AllKnown
<1>8. ASSUME NEW c \in Clients, Snapshot(c) \/ SetHTTP(c) \/ SetHTTPS(c)
      PROVE  config' = config /\ file' = file
    BY <1>8 DEF Snapshot, SetHTTP, SetHTTPS, SetEnv
<1>9. ASSUME NEW c \in Clients, NEW p \in Pods, NEW e \in Edits, Get(c, p, e)
      PROVE  config' = config /\ file' = file
    BY <1>9 DEF Get
<1>10. ASSUME NEW p \in Pods, Die(p) \/ \E s \in Scans : RunScan(s, p)
       PROVE  config' = config /\ file' = file
    BY <1>10 DEF Die, RunScan
<1>11. CASE UNCHANGED vars
    BY <1>4, <1>11 DEF vars
<1> QED
    BY <1>4, <1>5, <1>6, <1>7, <1>8, <1>9, <1>10, <1>11 DEF Next

\* OwnCredentials, of one scan.
Own(s, credentials) ==
    \A a \in Authorities :
        LET own == Carried(RequestOf[s], a)
        IN  /\ own # {} => a \in DOMAIN credentials
            /\ a \in DOMAIN credentials =>
                  credentials[a] \in (IF own # {} THEN own ELSE StoredFor(a))

\* The credential that a request carries is the one that perScanAuth is given.
LEMMA CarriedIs ==
    ASSUME NEW s \in Scans, NEW own, NEW auth, auth = Accepted(RequestOf[s]),
           own = IF auth # None /\ auth.authority # "" THEN auth ELSE None,
           NEW a \in Authorities
    PROVE  /\ own # None /\ own.authority = a => Carried(RequestOf[s], a) = {own.secret}
           /\ own = None \/ own.authority # a => Carried(RequestOf[s], a) = {}
<1> DEFINE req == RequestOf[s]
<1>1. a # ""
    BY ConfigAssumption, Zenon
<1>2. CASE req.from = "ui"
    <2>1. /\ auth = req.auth
          /\ Carried(req, a) =
                IF req.auth # None /\ req.auth.authority = a THEN {req.auth.secret} ELSE {}
        BY <1>2 DEF Accepted, Carried
    <2> QED
        BY <1>1, <2>1
<1>3. CASE req.from # "ui"
    <2> DEFINE given == req.header.scheme = "Bearer"
                            \/ (req.header.scheme = "Basic" /\ req.header.decodes)
               r     == [authority |-> req.host, secret |-> req.header.secret]
    <2>1. /\ auth = IF given THEN r ELSE None
          /\ Carried(req, a) = IF req.host = a /\ given THEN {req.header.secret} ELSE {}
        BY <1>3 DEF Accepted, parseRegistryAuth, Carried
    <2>2. None # r
        BY <1>3, ConfigAssumption, Zenon
    <2>3. r.authority = req.host /\ r.secret = req.header.secret
        OBVIOUS
    <2> HIDE DEF given, r
    <2> QED
        BY <1>1, <2>1, <2>2, <2>3
<1> QED
    BY <1>2, <1>3

LEMMA RunIsOwn ==
    ASSUME Types, AllKnown, NEW p \in Pods, NEW s \in Scans, RunScan(s, p)
    PROVE  \E options : creds' = [creds EXCEPT ![s] = options] /\ Own(s, options)
<1> DEFINE auth    == Accepted(RequestOf[s])
           own     == IF auth # None /\ auth.authority # "" THEN auth ELSE None
           c       == config[p]
           stored  == {c.auths[i].authority : i \in DOMAIN c.auths}
           mine    == IF own = None THEN {} ELSE {own.authority}
           options == BuildRegistryOptions(c, own)
<1>1. creds' = [creds EXCEPT ![s] = options]
    BY DEF RunScan
<1>2. IsConfig(c) /\ Known(c)
    BY DEF Types, TypeOK, AllKnown
<1>3. options = [a \in mine \union stored \union DOMAIN Mounted |->
                    IF a \in mine THEN own.secret
                    ELSE IF a \in stored THEN StoredPassword(c, a)
                    ELSE Mounted[a]]
    BY DEF BuildRegistryOptions
<1> HIDE DEF options
<1>4. ASSUME NEW a \in Authorities
      PROVE  /\ Carried(RequestOf[s], a) # {} => a \in DOMAIN options
             /\ a \in DOMAIN options =>
                   options[a] \in (IF Carried(RequestOf[s], a) # {} THEN Carried(RequestOf[s], a)
                                   ELSE StoredFor(a))
    <2>1. /\ own # None /\ own.authority = a => Carried(RequestOf[s], a) = {own.secret}
          /\ own = None \/ own.authority # a => Carried(RequestOf[s], a) = {}
        BY CarriedIs
    <2>2. StoredPassword(c, a) \in StoredFor(a)
        BY <1>2, PasswordIsKnown
    <2>3. a \in DOMAIN Mounted => Mounted[a] \in StoredFor(a)
        BY StoredForIs
    <2>4. a \in mine <=> own # None /\ own.authority = a
        OBVIOUS
    <2> HIDE DEF auth, own, c, stored, mine
    <2>5. a \in DOMAIN options <=> a \in mine \/ a \in stored \/ a \in DOMAIN Mounted
        BY <1>3
    <2>6. a \in DOMAIN options => options[a] = IF a \in mine THEN own.secret
                                              ELSE IF a \in stored THEN StoredPassword(c, a)
                                              ELSE Mounted[a]
        BY <1>3
    <2>7. CASE a \in mine
        BY <2>1, <2>4, <2>5, <2>6, <2>7
    <2>8. CASE a \notin mine
        BY <2>1, <2>2, <2>3, <2>4, <2>5, <2>6, <2>8
    <2> QED
        BY <2>7, <2>8
<1>5. Own(s, options)
    BY <1>4, Zenon DEF Own
<1> QED
    BY <1>1, <1>5

Credentials == \A s \in Scans : creds[s] # None => Own(s, creds[s])

LEMMA CredentialsKept ==
    ASSUME Types, AllKnown, Credentials, [Next]_vars
    PROVE  Credentials'
<1>1. \A a : StoredFor(a) \subseteq StoredWith(a, base', edit')
    BY EditsStay, StoredForGrows
<1> DEFINE OwnNext(s, credentials) ==
               \A a \in Authorities :
                  LET own == Carried(RequestOf[s], a)
                  IN  /\ own # {} => a \in DOMAIN credentials
                      /\ a \in DOMAIN credentials =>
                            credentials[a] \in (IF own # {} THEN own ELSE StoredWith(a, base', edit'))
<1>2. \A s, credentials : Own(s, credentials) => OwnNext(s, credentials)
    BY <1>1 DEF Own
<1>3. SUFFICES \A s \in Scans : creds'[s] # None => OwnNext(s, creds'[s])
    BY Zenon DEF Credentials, Own, StoredFor, StoredWith
<1> HIDE DEF OwnNext
<1>4. CASE creds' = creds
    BY <1>2, <1>4 DEF Credentials
<1>5. ASSUME NEW p \in Pods, NEW s \in Scans, RunScan(s, p)
      PROVE  \A t \in Scans : creds'[t] # None => OwnNext(t, creds'[t])
    <2>1. PICK options : creds' = [creds EXCEPT ![s] = options] /\ Own(s, options)
        BY <1>5, RunIsOwn
    <2>2. DOMAIN creds = Scans
        BY DEF Types, TypeOK
    <2> QED
        BY <1>2, <2>1, <2>2 DEF Credentials
<1>6. ASSUME NEW c \in Clients, NEW p \in Pods, NEW mask \in Masks, Save(c, p, mask)
      PROVE  creds' = creds
    BY <1>6 DEF Save
<1>7. ASSUME NEW c \in Clients,
             OpenFile(c) \/ WriteFile(c) \/ Snapshot(c) \/ SetHTTP(c) \/ SetHTTPS(c)
      PROVE  creds' = creds
    BY <1>7 DEF OpenFile, WriteFile, Snapshot, SetHTTP, SetHTTPS, SetEnv
<1>8. ASSUME NEW c \in Clients, NEW p \in Pods, NEW e \in Edits, Get(c, p, e)
      PROVE  creds' = creds
    BY <1>8 DEF Get
<1>9. ASSUME NEW p \in Pods, Die(p) \/ Start(p)
      PROVE  creds' = creds
    BY <1>9 DEF Die, Start
<1>10. CASE UNCHANGED vars
    BY <1>4, <1>10 DEF vars
<1> QED
    BY <1>4, <1>5, <1>6, <1>7, <1>8, <1>9, <1>10 DEF Next

LEMMA InitKnown == Init => AllKnown /\ Credentials
<1> SUFFICES ASSUME Init PROVE AllKnown /\ Credentials
    OBVIOUS
<1>1. Known(FirstConfig) /\ Known(Seeded)
    <2>1. \A i \in DOMAIN FirstConfig.auths :
             FirstConfig.auths[i].password \in StoredFor(FirstConfig.auths[i].authority)
        BY StoredForIs
    <2>2. Seeded.auths = <<>>
        BY DEF Seeded
    <2> QED
        BY <2>1, <2>2 DEF Known
<1>2. file.state = "whole" => file.config = FirstConfig
    BY DEF Init
<1>3. Known(Loaded)
    BY <1>1, <1>2 DEF Loaded
<1>4. config = [p \in Pods |-> Loaded] /\ creds = [s \in Scans |-> None]
    BY DEF Init
<1> QED
    BY <1>1, <1>2, <1>3, <1>4 DEF AllKnown, Credentials

\* A scan pulls from each registry with the credential of its own request for it, and
\* otherwise with one that somebody has stored or mounted for it: through Saves that
\* take masks for passwords, through pods that die and read the file again.
THEOREM OwnCredentialsOnly == Spec => []OwnCredentials
<1>1. Init => AllKnown /\ Credentials
    BY InitKnown
<1>2. Types /\ (AllKnown /\ Credentials) /\ [Next]_vars => (AllKnown /\ Credentials)'
    BY KnownKept, CredentialsKept
<1>3. Credentials => OwnCredentials
    BY DEF Credentials, Own, OwnCredentials
<1> QED
    BY <1>1, <1>2, <1>3, AlwaysTypes, PTL DEF Spec

-----------------------------------------------------------------------------
(* The masks are transparent: each entry that a Save stores is followed    *)
(* back through what was sent, edited and shown to the stored one.         *)

\* f counts the numbers of K, from the smallest on.
Counts(f, L, K) ==
    /\ f \in [1..L -> K]
    /\ \A i, k \in 1..L : i < k => f[i] < f[k]
    /\ \A n \in K : \E i \in 1..L : f[i] = n

\* There is one way to count.
LEMMA CountsOn ==
    ASSUME NEW K \in SUBSET Int, NEW L \in Nat, NEW M \in Nat, NEW f, NEW h,
           Counts(f, L, K), Counts(h, M, K)
    PROVE  \A n \in 1..L : n \in 1..M /\ f[n] = h[n]
<1> DEFINE Good(n) == n \in 1..M /\ f[n] = h[n]
           Bad     == {n \in 1..L : ~Good(n)}
<1>1. SUFFICES ASSUME Bad # {} PROVE FALSE
    OBVIOUS
<1>2. PICK n \in Bad : \A m \in Bad : n <= m
    <2>1. Bad \in SUBSET Nat
        OBVIOUS
    <2> HIDE DEF Bad
    <2> QED
        BY <1>1, <2>1, Least
<1>3. n \in 1..L /\ ~Good(n) /\ \A k \in 1..L : k < n => Good(k)
    <2>1. \A k \in 1..L : k < n => k \notin Bad
        BY <1>2
    <2> QED
        BY <1>2, <2>1
<1>4. /\ \A i \in 1..L : f[i] \in K /\ f[i] \in Int
      /\ \A i \in 1..M : h[i] \in K /\ h[i] \in Int
      /\ \A i, k \in 1..L : i < k => f[i] < f[k]
      /\ \A i, k \in 1..M : i < k => h[i] < h[k]
      /\ \A x \in K : \E i \in 1..L : f[i] = x
      /\ \A x \in K : \E i \in 1..M : h[i] = x
    BY DEF Counts
<1>5. PICK m \in 1..M : h[m] = f[n]
    BY <1>3, <1>4
<1>6. ~ (m < n)
    <2> SUFFICES ASSUME m < n PROVE FALSE
        OBVIOUS
    <2>1. m \in 1..L /\ f[m] = h[m]
        BY <1>3
    <2> QED
        BY <1>3, <1>4, <1>5, <2>1
<1>7. m # n
    BY <1>3, <1>5
<1>8. n < m /\ n \in 1..M
    BY <1>3, <1>6, <1>7
<1>9. h[n] < f[n]
    BY <1>4, <1>5, <1>8
<1>10. PICK k \in 1..L : f[k] = h[n]
    BY <1>4, <1>8
<1>11. k < n
    BY <1>3, <1>4, <1>9, <1>10
<1>12. k \in 1..M /\ h[k] = h[n]
    BY <1>3, <1>10, <1>11
<1> QED
    BY <1>4, <1>8, <1>11, <1>12

\* What Kept keeps, when it is known how to count it.
LEMMA KeptCounts ==
    ASSUME NEW V, NEW q \in Seq(V), NEW keep \in SUBSET (1..Len(q)),
           NEW L \in Nat, NEW h, Counts(h, L, keep)
    PROVE  /\ Kept(q, keep) \in Seq(V) /\ Len(Kept(q, keep)) = L
           /\ \A i \in 1..L : Kept(q, keep)[i] = q[h[i]]
<1> DEFINE r == Kept(q, keep)
           M == Len(r)
<1>1. r \in Seq(V) /\ Thinned(r, q, keep)
    BY KeptIs
<1> HIDE DEF r
<1>2. M \in Nat
    BY <1>1
<1>3. PICK f : Counts(f, M, keep) /\ \A i \in 1..M : r[i] = q[f[i]]
    BY <1>1, Zenon DEF Thinned, Counts
<1>4. keep \in SUBSET Int
    OBVIOUS
<1> HIDE DEF M
<1>5. /\ \A n \in 1..M : n \in 1..L /\ f[n] = h[n]
      /\ \A n \in 1..L : n \in 1..M /\ h[n] = f[n]
    BY <1>2, <1>3, <1>4, CountsOn
<1>6. M = L
    <2>1. M # 0 => M \in 1..M
        BY <1>2
    <2>2. L # 0 => L \in 1..L
        OBVIOUS
    <2> QED
        BY <1>2, <1>5, <2>1, <2>2
<1> QED
    BY <1>1, <1>3, <1>5, <1>6 DEF r, M

\* The entry y of a request stands for the entry x of the edited configuration: it has
\* its password, or a mask where x has one of those that are stored for its authority
\* in c, or where e gave x to its authority.
StandsFor(c, e, x, y) ==
    /\ y.authority = x.authority
    /\ \/ y.password \notin Masks /\ y.password = x.password
       \/ /\ y.password \in Masks
          /\ \/ \E j \in DOMAIN c.auths : /\ c.auths[j].authority = x.authority
                                          /\ c.auths[j].password = x.password
             \/ e.change = "rename" /\ e.to = x.authority

\* Counted by h, the entries of a request that are no mounted ones stand for meant.
Matches(c, e, meant, sent, h) ==
    /\ Counts(h, Len(meant), {i \in DOMAIN sent : sent[i].source # "mounted-secret"})
    /\ \A i \in 1..Len(meant) : StandsFor(c, e, meant[i], sent[h[i]])

\* What is shown, in the words of the above.
LEMMA ShownStands ==
    ASSUME NEW c, IsConfig(c), NEW e
    PROVE  LET g == GetPublic(c).auths
               n == Len(c.auths)
           IN  /\ n \in Nat /\ Len(g) \in Nat /\ n <= Len(g)
               /\ DOMAIN g = 1..Len(g) /\ DOMAIN c.auths = 1..n
               /\ {i \in DOMAIN g : g[i].source # "mounted-secret"} = 1..n
               /\ \A i \in 1..n : /\ g[i].source = "ui" /\ c.auths[i].source = "ui"
                                   /\ StandsFor(c, e, c.auths[i], g[i])
               /\ \A i \in 1..Len(g) : i \notin 1..n => g[i].source = "mounted-secret"
<1> DEFINE g == GetPublic(c).auths
           n == Len(c.auths)
<1>1. /\ n \in Nat /\ DOMAIN c.auths = 1..n
      /\ \A i \in 1..n : c.auths[i].source = "ui"
    BY AuthsAre, EntryIs
<1>2. /\ g \in Seq(Shown) /\ n <= Len(g)
      /\ \A i \in 1..n : /\ g[i].authority = c.auths[i].authority
                         /\ g[i].password = IF c.auths[i].password = "" THEN "" ELSE "********"
                         /\ g[i].source = "ui"
      /\ \A i \in 1..Len(g) : g[i].source = "ui" => i \in 1..n
    BY PublicIs
<1> HIDE DEF g
<1>3. DOMAIN g = 1..Len(g) /\ Len(g) \in Nat /\ \A i \in 1..Len(g) : g[i] \in Shown
    <2>1. g \in Seq(Shown)
        BY <1>2
    <2> QED
        BY <2>1
<1>4. \A i \in 1..Len(g) : g[i].source \in {"ui", "mounted-secret"}
    BY <1>3 DEF Shown
<1>5. \A i \in 1..Len(g) : i \notin 1..n => g[i].source = "mounted-secret"
    BY <1>2, <1>4
<1>6. \A i \in 1..n : i \in 1..Len(g)
    <2>1. n \in Nat /\ Len(g) \in Nat /\ n <= Len(g)
        BY <1>1, <1>2, <1>3
    <2> HIDE DEF n
    <2> QED
        BY <2>1
<1>7. {i \in DOMAIN g : g[i].source # "mounted-secret"} = 1..n
    BY <1>2, <1>3, <1>5, <1>6
<1>8. ASSUME NEW i \in 1..n PROVE StandsFor(c, e, c.auths[i], g[i])
    <2>1. "" \notin Masks /\ "********" \in Masks
        BY DEF Masks
    <2>2. g[i].authority = c.auths[i].authority
          /\ g[i].password = IF c.auths[i].password = "" THEN "" ELSE "********"
        BY <1>2
    <2>3. CASE c.auths[i].password = ""
        BY <2>1, <2>2, <2>3 DEF StandsFor
    <2>4. CASE c.auths[i].password # ""
        BY <1>1, <2>1, <2>2, <2>4 DEF StandsFor
    <2> QED
        BY <2>3, <2>4
<1> HIDE DEF n
<1> QED
    BY <1>1, <1>2, <1>3, <1>5, <1>7, <1>8 DEF g, n

LEMMA Identity ==
    ASSUME NEW n \in Nat
    PROVE  Counts([i \in 1..n |-> i], n, 1..n)
BY DEF Counts

LEMMA SameStands ==
    ASSUME NEW c, IsConfig(c), NEW e \in Edits, e.change \in {"proxy", "nothing"}
    PROVE  \E h : Matches(c, e, Edited(c, e).auths, Edited(GetPublic(c), e).auths, h)
<1> DEFINE g == GetPublic(c).auths
           n == Len(c.auths)
<1>1. Edited(c, e).auths = c.auths /\ Edited(GetPublic(c), e).auths = g
    <2>1. DOMAIN c = {"proxy", "auths"} /\ c.auths \in Seq(Entry)
          /\ DOMAIN GetPublic(c) = {"proxy", "auths"} /\ g \in Seq(Shown)
        BY PublicIs DEF IsConfig
    <2> QED
        BY <2>1, EditedAuths, Zenon
<1>2. /\ n \in Nat /\ {i \in DOMAIN g : g[i].source # "mounted-secret"} = 1..n
      /\ \A i \in 1..n : StandsFor(c, e, c.auths[i], g[i])
    BY ShownStands
<1> DEFINE h == [i \in 1..n |-> i]
<1>3. Counts(h, n, 1..n) /\ \A i \in 1..n : h[i] = i
    BY <1>2, Identity
<1> HIDE DEF h, g
<1>4. Matches(c, e, c.auths, g, h)
    BY <1>2, <1>3 DEF Matches
<1> QED
    BY <1>1, <1>4 DEF g

\* A password or an authority that is changed at one place of a list.
LEMMA ChangedAt ==
    ASSUME NEW V, V = Entry \/ V = Shown, NEW q \in Seq(V), NEW S, NEW w
    PROVE  LET typed   == [i \in DOMAIN q |-> IF i \in S THEN WithPassword(q[i], w) ELSE q[i]]
               renamed == [i \in DOMAIN q |-> IF i \in S THEN WithAuthority(q[i], w) ELSE q[i]]
           IN  /\ DOMAIN typed = DOMAIN q /\ DOMAIN renamed = DOMAIN q
               /\ \A i \in DOMAIN q :
                     /\ typed[i].authority = q[i].authority /\ typed[i].source = q[i].source
                     /\ i \in S => typed[i].password = w
                     /\ i \notin S => typed[i].password = q[i].password
                     /\ renamed[i].password = q[i].password /\ renamed[i].source = q[i].source
                     /\ i \in S => renamed[i].authority = w
                     /\ i \notin S => renamed[i].authority = q[i].authority
<1> DEFINE typed   == [i \in DOMAIN q |-> IF i \in S THEN WithPassword(q[i], w) ELSE q[i]]
           renamed == [i \in DOMAIN q |-> IF i \in S THEN WithAuthority(q[i], w) ELSE q[i]]
<1>1. DOMAIN typed = DOMAIN q /\ DOMAIN renamed = DOMAIN q
    OBVIOUS
<1>2. ASSUME NEW i \in DOMAIN q
      PROVE  /\ typed[i].authority = q[i].authority /\ typed[i].source = q[i].source
             /\ i \in S => typed[i].password = w
             /\ i \notin S => typed[i].password = q[i].password
             /\ renamed[i].password = q[i].password /\ renamed[i].source = q[i].source
             /\ i \in S => renamed[i].authority = w
             /\ i \notin S => renamed[i].authority = q[i].authority
    <2>1. /\ typed[i] = IF i \in S THEN WithPassword(q[i], w) ELSE q[i]
          /\ renamed[i] = IF i \in S THEN WithAuthority(q[i], w) ELSE q[i]
        OBVIOUS
    <2>2. q[i] \in V
        OBVIOUS
    <2> HIDE DEF typed, renamed
    <2>3. q[i] = [authority |-> q[i].authority, password |-> q[i].password, source |-> q[i].source]
        BY <2>2, EntryIs, ShownIs
    <2>4. /\ WithPassword(q[i], w) =
                [authority |-> q[i].authority, password |-> w, source |-> q[i].source]
          /\ WithAuthority(q[i], w) =
                [authority |-> w, password |-> q[i].password, source |-> q[i].source]
        BY <2>3, FieldsOf
    <2>5. CASE i \in S
        BY <2>1, <2>4, <2>5
    <2>6. CASE i \notin S
        BY <2>1, <2>6
    <2> QED
        BY <2>5, <2>6
<1> HIDE DEF typed, renamed
<1> QED
    BY <1>1, <1>2 DEF typed, renamed

\* The same stored entry is chosen of what is shown and of what is stored.
LEMMA ChosenSame ==
    ASSUME NEW c, IsConfig(c), NEW e
    PROVE  ChosenIn(GetPublic(c).auths, e) = ChosenIn(c.auths, e)
<1> DEFINE g == GetPublic(c).auths
           n == Len(c.auths)
<1>1. /\ n \in Nat /\ DOMAIN g = 1..Len(g) /\ DOMAIN c.auths = 1..n
      /\ {i \in DOMAIN g : g[i].source # "mounted-secret"} = 1..n
      /\ \A i \in 1..n : g[i].source = "ui" /\ c.auths[i].source = "ui"
    BY ShownStands
<1> HIDE DEF g, n
<1>2. \A i \in DOMAIN g : g[i].source = "ui" => i \in 1..n
    BY <1>1
<1>3. \A i \in 1..n : i \in DOMAIN g
    BY <1>1
<1> QED
    BY <1>1, <1>2, <1>3 DEF ChosenIn, g

LEMMA ChangedStands ==
    ASSUME NEW c, IsConfig(c), NEW e \in Edits, e.change \in {"password", "rename"}
    PROVE  \E h : Matches(c, e, Edited(c, e).auths, Edited(GetPublic(c), e).auths, h)
<1> DEFINE g    == GetPublic(c).auths
           n    == Len(c.auths)
           S    == ChosenIn(c.auths, e)
           x    == Edited(c, e).auths
           y    == Edited(GetPublic(c), e).auths
           h    == [i \in 1..n |-> i]
           Typing(q)   == [i \in DOMAIN q |-> IF i \in S THEN WithPassword(q[i], e.to) ELSE q[i]]
           Renaming(q) == [i \in DOMAIN q |-> IF i \in S THEN WithAuthority(q[i], e.to) ELSE q[i]]
<1>1. DOMAIN c = {"proxy", "auths"} /\ c.auths \in Seq(Entry)
      /\ DOMAIN GetPublic(c) = {"proxy", "auths"} /\ g \in Seq(Shown)
    BY PublicIs DEF IsConfig
<1>2. /\ n \in Nat /\ DOMAIN g = 1..Len(g) /\ DOMAIN c.auths = 1..n
      /\ {i \in DOMAIN g : g[i].source # "mounted-secret"} = 1..n
      /\ \A i \in 1..n : StandsFor(c, e, c.auths[i], g[i])
      /\ Len(g) \in Nat /\ n <= Len(g)
    BY ShownStands
<1>3. Counts(h, n, 1..n) /\ \A i \in 1..n : h[i] = i
    BY <1>2, Identity
<1>4. ChosenIn(g, e) = S
    BY ChosenSame, Zenon
<1>5. /\ e.change = "password" => x = Typing(c.auths) /\ y = Typing(g)
      /\ e.change = "rename" => x = Renaming(c.auths) /\ y = Renaming(g)
    <2>1. /\ e.change = "password" => x = Typing(c.auths)
          /\ e.change = "rename" => x = Renaming(c.auths)
        BY <1>1, EditedAuths, Zenon
    <2>2. /\ e.change = "password" =>
                 y = [i \in DOMAIN g |-> IF i \in ChosenIn(g, e) THEN WithPassword(g[i], e.to)
                                        ELSE g[i]]
          /\ e.change = "rename" =>
                 y = [i \in DOMAIN g |-> IF i \in ChosenIn(g, e) THEN WithAuthority(g[i], e.to)
                                        ELSE g[i]]
        BY <1>1, EditedAuths, Zenon
    <2> HIDE DEF x, y, g, S
    <2> QED
        BY <1>4, <2>1, <2>2
<1>6. S \subseteq 1..n
    BY <1>2 DEF ChosenIn
<1>7. /\ DOMAIN Typing(c.auths) = 1..n /\ DOMAIN Renaming(c.auths) = 1..n
      /\ \A i \in 1..n :
            /\ Typing(c.auths)[i].authority = c.auths[i].authority
            /\ i \in S => Typing(c.auths)[i].password = e.to
            /\ i \notin S => Typing(c.auths)[i].password = c.auths[i].password
            /\ Renaming(c.auths)[i].password = c.auths[i].password
            /\ i \in S => Renaming(c.auths)[i].authority = e.to
            /\ i \notin S => Renaming(c.auths)[i].authority = c.auths[i].authority
    <2> HIDE DEF S, n, Typing, Renaming
    <2> QED
        BY <1>1, <1>2, ChangedAt DEF Typing, Renaming
<1>8. /\ DOMAIN Typing(g) = DOMAIN g /\ DOMAIN Renaming(g) = DOMAIN g
      /\ \A i \in DOMAIN g :
            /\ Typing(g)[i].authority = g[i].authority /\ Typing(g)[i].source = g[i].source
            /\ i \in S => Typing(g)[i].password = e.to
            /\ i \notin S => Typing(g)[i].password = g[i].password
            /\ Renaming(g)[i].password = g[i].password /\ Renaming(g)[i].source = g[i].source
            /\ i \in S => Renaming(g)[i].authority = e.to
            /\ i \notin S => Renaming(g)[i].authority = g[i].authority
    <2> HIDE DEF S, n, g, Typing, Renaming
    <2> QED
        BY <1>1, <1>2, ChangedAt DEF Typing, Renaming
<1>9. \A i \in 1..n : i \in DOMAIN g
    <2> HIDE DEF n, g
    <2> QED
        BY <1>2
<1>10. \A i \in 1..n : /\ g[i].authority = c.auths[i].authority
                       /\ g[i].password \in Masks \/ g[i].password = c.auths[i].password
    BY <1>2 DEF StandsFor
<1> HIDE DEF S, g, h, n, Typing, Renaming, x, y
<1>11. ASSUME NEW i \in 1..n, e.change = "password"
       PROVE  StandsFor(c, e, Typing(c.auths)[i], Typing(g)[i])
    <2>1. CASE i \in S
        <3>1. e.to \notin Masks
            BY <1>11, EditIs
        <3> QED
            BY <1>7, <1>8, <1>9, <1>10, <2>1, <3>1 DEF StandsFor
    <2>2. CASE i \notin S
        <3>1. StandsFor(c, e, c.auths[i], g[i])
            BY <1>2
        <3> QED
            BY <1>7, <1>8, <1>9, <2>2, <3>1 DEF StandsFor
    <2> QED
        BY <2>1, <2>2
<1>12. ASSUME NEW i \in 1..n, e.change = "rename"
       PROVE  StandsFor(c, e, Renaming(c.auths)[i], Renaming(g)[i])
    <2>1. CASE i \in S
        BY <1>7, <1>8, <1>9, <1>10, <1>12, <2>1 DEF StandsFor
    <2>2. CASE i \notin S
        <3>1. StandsFor(c, e, c.auths[i], g[i])
            BY <1>2
        <3> QED
            BY <1>7, <1>8, <1>9, <2>2, <3>1 DEF StandsFor
    <2> QED
        BY <2>1, <2>2
<1>13. /\ DOMAIN x = 1..n /\ DOMAIN y = DOMAIN g
       /\ \A i \in DOMAIN g : y[i].source = g[i].source
       /\ \A i \in 1..n : StandsFor(c, e, x[i], y[i])
    BY <1>5, <1>7, <1>8, <1>11, <1>12
<1>14. Len(x) = n
    <2>1. DOMAIN x = 1..Len(x) /\ Len(x) \in Nat
        BY EditedConfig, AuthsAre DEF x
    <2> QED
        BY <1>2, <1>13, <2>1
<1>15. {i \in DOMAIN y : y[i].source # "mounted-secret"} = 1..n
    BY <1>2, <1>13
<1>16. Matches(c, e, x, y, h)
    BY <1>3, <1>13, <1>14, <1>15 DEF Matches
<1> QED
    BY <1>16 DEF x, y

LEMMA AddedStands ==
    ASSUME NEW c, IsConfig(c), NEW e \in Edits, e.change = "add"
    PROVE  \E h : Matches(c, e, Edited(c, e).auths, Edited(GetPublic(c), e).auths, h)
<1> DEFINE g == GetPublic(c).auths
           n == Len(c.auths)
           m == Len(g)
           x == Append(c.auths, Typed(e))
           y == Append(g, Typed(e))
           h == [i \in 1..(n + 1) |-> IF i = n + 1 THEN m + 1 ELSE i]
<1>1. DOMAIN c = {"proxy", "auths"} /\ c.auths \in Seq(Entry)
      /\ DOMAIN GetPublic(c) = {"proxy", "auths"} /\ g \in Seq(Shown)
    BY PublicIs DEF IsConfig
<1>2. Edited(c, e).auths = x /\ Edited(GetPublic(c), e).auths = y
    BY <1>1, EditedAuths, Zenon
<1>3. /\ n \in Nat /\ m \in Nat /\ n <= m /\ DOMAIN g = 1..m /\ DOMAIN c.auths = 1..n
      /\ {i \in DOMAIN g : g[i].source # "mounted-secret"} = 1..n
      /\ \A i \in 1..n : StandsFor(c, e, c.auths[i], g[i])
    BY ShownStands
<1>4. /\ Len(x) = n + 1 /\ x[n + 1] = Typed(e) /\ \A i \in 1..n : x[i] = c.auths[i]
    BY <1>1, <1>3
<1>5. /\ DOMAIN y = 1..(m + 1) /\ y[m + 1] = Typed(e) /\ \A i \in 1..m : y[i] = g[i]
    BY <1>1, <1>3
<1>6. /\ \A i \in 1..n : i \in 1..(n + 1) /\ i # n + 1 /\ h[i] = i
      /\ h[n + 1] = m + 1 /\ DOMAIN h = 1..(n + 1) /\ h = [i \in 1..(n + 1) |-> h[i]]
      /\ \A i \in 1..(n + 1) : i = n + 1 \/ i \in 1..n
    <2> HIDE DEF n, m
    <2>1. n + 1 \in 1..(n + 1) /\ \A i \in 1..n : i \in 1..(n + 1) /\ i # n + 1
        BY <1>3
    <2>2. \A i \in 1..(n + 1) : i = n + 1 \/ i \in 1..n
        BY <1>3
    <2> QED
        BY <2>1, <2>2
<1>7. Typed(e).source = "ui" /\ Typed(e).password = e.to /\ e.to \notin Masks
    BY EditIs DEF Typed
<1> HIDE DEF g, n, m, x, y, h
<1> DEFINE K == {i \in DOMAIN y : y[i].source # "mounted-secret"}
<1>8. \A i \in 1..(m + 1) : i = m + 1 \/ i \in 1..m
    BY <1>3
<1>9. \A i \in 1..n : i \in 1..m /\ i \in 1..(m + 1) /\ i < m + 1
    BY <1>3
<1>10. m + 1 \in 1..(m + 1)
    BY <1>3
<1>11. K = (1..n) \union {m + 1}
    BY <1>3, <1>5, <1>7, <1>8, <1>9, <1>10
<1> HIDE DEF K
<1>12. Counts(h, n + 1, K)
    <2>1. h \in [1..(n + 1) -> K]
        BY <1>6, <1>11
    <2>2. \A i, k \in 1..(n + 1) : i < k => h[i] < h[k]
        <3> TAKE i, k \in 1..(n + 1)
        <3> HAVE i < k
        <3>1. i \in 1..n
            BY <1>3, <1>6
        <3>2. CASE k = n + 1
            BY <1>6, <1>9, <3>1, <3>2
        <3>3. CASE k \in 1..n
            BY <1>6, <3>1, <3>3
        <3> QED
            BY <1>6, <3>2, <3>3
    <2>3. \A v \in K : \E i \in 1..(n + 1) : h[i] = v
        <3>1. n + 1 \in 1..(n + 1)
            BY <1>3
        <3> QED
            BY <1>6, <1>11, <3>1
    <2> QED
        BY <2>1, <2>2, <2>3 DEF Counts
<1>13. ASSUME NEW i \in 1..(n + 1) PROVE StandsFor(c, e, x[i], y[h[i]])
    <2>1. CASE i = n + 1
        BY <1>4, <1>5, <1>6, <1>7, <2>1 DEF StandsFor
    <2>2. CASE i \in 1..n
        BY <1>3, <1>4, <1>5, <1>6, <1>9, <2>2
    <2> QED
        BY <1>6, <2>1, <2>2
<1>14. Matches(c, e, x, y, h)
    BY <1>4, <1>12, <1>13 DEF Matches, K
<1> QED
    BY <1>2, <1>14

LEMMA RemovedStands ==
    ASSUME NEW c, IsConfig(c), NEW e \in Edits, e.change = "remove"
    PROVE  \E h : Matches(c, e, Edited(c, e).auths, Edited(GetPublic(c), e).auths, h)
<1> DEFINE g  == GetPublic(c).auths
           n  == Len(c.auths)
           S  == ChosenIn(c.auths, e)
           kc == DOMAIN c.auths \ S
           kg == DOMAIN g \ S
           x  == Kept(c.auths, kc)
           y  == Kept(g, kg)
           L  == Len(x)
           M  == Len(y)
           J  == {i \in DOMAIN y : y[i].source # "mounted-secret"}
<1>1. DOMAIN c = {"proxy", "auths"} /\ c.auths \in Seq(Entry)
      /\ DOMAIN GetPublic(c) = {"proxy", "auths"} /\ g \in Seq(Shown)
    BY PublicIs DEF IsConfig
<1>2. ChosenIn(g, e) = S
    BY ChosenSame, Zenon
<1>3. Edited(c, e).auths = x /\ Edited(GetPublic(c), e).auths = y
    <2>1. Edited(c, e).auths = x
        BY <1>1, EditedAuths, Zenon
    <2>2. Edited(GetPublic(c), e).auths = Kept(g, DOMAIN g \ ChosenIn(g, e))
        BY <1>1, EditedAuths, Zenon
    <2> HIDE DEF S, g
    <2> QED
        BY <1>2, <2>1, <2>2, Zenon
<1>4. /\ n \in Nat /\ Len(g) \in Nat /\ n <= Len(g) /\ DOMAIN g = 1..Len(g)
      /\ DOMAIN c.auths = 1..n
      /\ {i \in DOMAIN g : g[i].source # "mounted-secret"} = 1..n
      /\ \A i \in 1..n : StandsFor(c, e, c.auths[i], g[i])
    BY ShownStands
<1>5. kc \in SUBSET (1..n) /\ kg \in SUBSET (1..Len(g)) /\ kc \subseteq kg
      /\ \A i \in kg : g[i].source # "mounted-secret" <=> i \in kc
    <2> HIDE DEF g, n, S
    <2>1. 1..n \subseteq 1..Len(g)
        BY <1>4
    <2> QED
        BY <1>4, <2>1
<1>6. x \in Seq(Entry) /\ Thinned(x, c.auths, kc) /\ y \in Seq(Shown) /\ Thinned(y, g, kg)
    <2> HIDE DEF g, kc, kg
    <2> QED
        BY <1>1, <1>5, KeptIs DEF n
<1> HIDE DEF g, n, S, kc, kg, x, y
<1>7. L \in Nat /\ M \in Nat /\ DOMAIN y = 1..M
    BY <1>6
<1>8. PICK f : Counts(f, L, kc) /\ \A i \in 1..L : x[i] = c.auths[f[i]]
    BY <1>6, Zenon DEF Thinned, Counts
<1>9. PICK k : Counts(k, M, kg) /\ \A i \in 1..M : y[i] = g[k[i]]
    BY <1>6, Zenon DEF Thinned, Counts
<1> HIDE DEF L, M
<1>10. /\ f \in [1..L -> kc]
       /\ \A i, j \in 1..L : i < j => f[i] < f[j]
       /\ \A v \in kc : \E i \in 1..L : f[i] = v
    BY <1>8 DEF Counts
<1>11. /\ k \in [1..M -> kg]
       /\ \A i, j \in 1..M : i < j => k[i] < k[j]
       /\ \A v \in kg : \E i \in 1..M : k[i] = v
    BY <1>9 DEF Counts
<1>12. \A i \in 1..L : \E j \in 1..M : k[j] = f[i]
    BY <1>5, <1>10, <1>11
<1> DEFINE h == [i \in 1..L |-> CHOOSE j \in 1..M : k[j] = f[i]]
<1>13. \A i \in 1..L : h[i] \in 1..M /\ k[h[i]] = f[i]
    BY <1>12
<1>14. h = [i \in 1..L |-> h[i]]
    OBVIOUS
<1> HIDE DEF h
<1>15. \A i \in 1..M : i \in J <=> k[i] \in kc
    <2> TAKE i \in 1..M
    <2>1. k[i] \in kg /\ y[i] = g[k[i]]
        BY <1>9, <1>11
    <2>2. g[k[i]].source # "mounted-secret" <=> k[i] \in kc
        BY <1>5, <2>1
    <2> QED
        BY <1>7, <2>1, <2>2
<1>16. J \subseteq 1..M
    BY <1>7
<1> HIDE DEF J
<1>17. h \in [1..L -> J]
    BY <1>10, <1>13, <1>14, <1>15
<1>18. /\ \A i \in 1..L : f[i] \in Int
       /\ \A i \in 1..M : k[i] \in Int
    <2>1. kc \subseteq Int /\ kg \subseteq Int
        BY <1>5
    <2> QED
        BY <1>10, <1>11, <2>1
<1>19. \A i, j \in 1..L : i < j => h[i] < h[j]
    <2> SUFFICES ASSUME NEW i \in 1..L, NEW j \in 1..L, i < j, ~(h[i] < h[j]) PROVE FALSE
        OBVIOUS
    <2>1. f[i] < f[j] /\ k[h[i]] = f[i] /\ k[h[j]] = f[j] /\ h[i] \in 1..M /\ h[j] \in 1..M
        BY <1>10, <1>13
    <2>2. h[j] = h[i] \/ h[j] < h[i]
        BY <2>1
    <2>3. h[j] < h[i] => k[h[j]] < k[h[i]]
        BY <1>11, <2>1
    <2> QED
        BY <1>18, <2>1, <2>2, <2>3
<1>20. ASSUME NEW j \in J PROVE \E i \in 1..L : h[i] = j
    <2>1. j \in 1..M /\ k[j] \in kc
        BY <1>15, <1>16
    <2>2. PICK i \in 1..L : f[i] = k[j]
        BY <1>10, <2>1
    <2>3. h[i] \in 1..M /\ k[h[i]] = k[j]
        BY <1>13, <2>2
    <2>4. ~(h[i] < j) /\ ~(j < h[i])
        BY <1>11, <1>18, <2>1, <2>3
    <2>5. h[i] = j
        BY <2>1, <2>3, <2>4
    <2> QED
        BY <2>2, <2>5
<1>21. Counts(h, L, J)
    BY <1>17, <1>19, <1>20 DEF Counts
<1>22. ASSUME NEW i \in 1..L PROVE StandsFor(c, e, x[i], y[h[i]])
    <2>1. x[i] = c.auths[f[i]] /\ y[h[i]] = g[f[i]] /\ f[i] \in 1..n
        BY <1>5, <1>8, <1>9, <1>10, <1>13
    <2> QED
        BY <1>4, <2>1
<1>23. Matches(c, e, x, y, h)
    BY <1>21, <1>22 DEF Matches, L, J
<1> QED
    BY <1>3, <1>23

LEMMA EditStands ==
    ASSUME NEW c, IsConfig(c), NEW e \in Edits
    PROVE  \E h : Matches(c, e, Edited(c, e).auths, Edited(GetPublic(c), e).auths, h)
BY EditIs, SameStands, ChangedStands, AddedStands, RemovedStands

\* Where an authority has one entry only, that is the one that counts.
LEMMA OnlyOne ==
    ASSUME NEW c, IsConfig(c), NEW j \in DOMAIN c.auths,
           ~ \E i, k \in DOMAIN c.auths : /\ i # k
                                           /\ c.auths[i].authority = c.auths[j].authority
                                           /\ c.auths[k].authority = c.auths[j].authority
    PROVE  StoredPassword(c, c.auths[j].authority) = c.auths[j].password
<1> DEFINE a == c.auths[j].authority
<1>1. At(c.auths, a) = {i \in DOMAIN c.auths : c.auths[i].authority = a}
    BY AuthsAre
<1>2. At(c.auths, a) = {j}
    BY <1>1
<1>3. PICK i \in At(c.auths, a) : StoredPassword(c, a) = c.auths[i].password
    BY <1>2, StoredIs
<1> QED
    BY <1>2, <1>3

LEMMA SaveIsTransparent ==
    ASSUME NEW c, IsConfig(c), NEW e \in Edits, NEW mask \in Masks
    PROVE  Transparent(c, e, Clean(Sent(c, e, mask), c))
<1> DEFINE g     == Edited(GetPublic(c), e)
           sent  == Sent(c, e, mask)
           meant == Edited(c, e)
           new   == Clean(sent, c)
           ui    == UiAuths(sent.auths)
           L     == Len(meant.auths)
           J     == {i \in DOMAIN sent.auths : sent.auths[i].source # "mounted-secret"}
<1>1. /\ DOMAIN g = {"proxy", "auths"} /\ g.auths \in Seq(Sendable(c, e))
      /\ DOMAIN sent = {"proxy", "auths"} /\ sent.proxy \in Proxies
      /\ sent.auths \in Seq(Sendable(c, e))
    BY SentIs
<1>2. sent = WithMask(g, mask)
    BY DEF Sent
<1>3. g.proxy = meant.proxy
    <2>1. DOMAIN c = {"proxy", "auths"} /\ c.auths \in Seq(Entry)
          /\ DOMAIN GetPublic(c) = {"proxy", "auths"} /\ GetPublic(c).auths \in Seq(Shown)
          /\ GetPublic(c).proxy = c.proxy
        BY PublicIs DEF IsConfig
    <2>2. g.proxy = IF e.change = "proxy" THEN e.to ELSE GetPublic(c).proxy
        BY <2>1, EditedAuths, Zenon
    <2>3. meant.proxy = IF e.change = "proxy" THEN e.to ELSE c.proxy
        BY <2>1, EditedAuths, Zenon
    <2> HIDE DEF g, meant
    <2> QED
        BY <2>1, <2>2, <2>3
<1>4. PICK h : Matches(c, e, meant.auths, g.auths, h)
    BY EditStands
<1>5. L \in Nat /\ DOMAIN meant.auths = 1..L
    BY EditedConfig, AuthsAre
<1> HIDE DEF g, sent, meant
<1>6. /\ sent.proxy = g.proxy /\ Len(sent.auths) = Len(g.auths)
      /\ \A i \in 1..Len(g.auths) :
            /\ sent.auths[i].authority = g.auths[i].authority
            /\ sent.auths[i].source = g.auths[i].source
            /\ sent.auths[i].password =
                  IF g.auths[i].password \in Masks THEN mask ELSE g.auths[i].password
    BY <1>1, <1>2, MaskedIs
<1>7. DOMAIN g.auths = 1..Len(g.auths) /\ DOMAIN sent.auths = 1..Len(sent.auths)
    BY <1>1
<1>8. J = {i \in DOMAIN g.auths : g.auths[i].source # "mounted-secret"}
    BY <1>6, <1>7
<1>9. J \in SUBSET (1..Len(sent.auths)) /\ ui = Kept(sent.auths, J)
    BY <1>7 DEF UiAuths
<1> HIDE DEF J, L
<1>10. /\ Counts(h, L, J)
       /\ \A i \in 1..L : h[i] \in 1..Len(g.auths) /\ StandsFor(c, e, meant.auths[i], g.auths[h[i]])
    <2>1. Counts(h, L, J) /\ \A i \in 1..L : StandsFor(c, e, meant.auths[i], g.auths[h[i]])
        BY <1>4, <1>8 DEF Matches, L
    <2> QED
        BY <1>6, <1>9, <2>1 DEF Counts
<1>11. Len(ui) = L /\ \A i \in 1..L : ui[i] = sent.auths[h[i]]
    BY <1>1, <1>5, <1>9, <1>10, KeptCounts
<1>12. /\ IsConfig(new) /\ new.proxy = sent.proxy /\ Len(new.auths) = Len(ui)
       /\ \A i \in 1..Len(ui) :
             /\ new.auths[i].authority = ui[i].authority
             /\ new.auths[i].password = IF ui[i].password \in Masks
                                        THEN StoredPassword(c, ui[i].authority)
                                        ELSE ui[i].password
    BY <1>1, CleanIs
<1>13. DOMAIN new.auths = 1..L
    BY <1>11, <1>12, AuthsAre
<1> HIDE DEF new, ui
<1> DEFINE Several(a) == \E i, j \in DOMAIN c.auths :
                            i # j /\ c.auths[i].authority = a /\ c.auths[j].authority = a
<1>14. ASSUME NEW i \in 1..L
       PROVE  LET a == meant.auths[i].authority
              IN  /\ new.auths[i].authority = a
                  /\ \/ new.auths[i].password = meant.auths[i].password
                     \/ /\ Several(a) \/ (e.change = "rename" /\ e.to = a)
                        /\ new.auths[i].password = StoredPassword(c, a)
    <2> DEFINE x == meant.auths[i]
               y == g.auths[h[i]]
               z == sent.auths[h[i]]
               u == new.auths[i]
    <2>1. /\ z.authority = y.authority
          /\ z.password = IF y.password \in Masks THEN mask ELSE y.password
          /\ StandsFor(c, e, x, y)
        BY <1>6, <1>10
    <2>2. /\ u.authority = z.authority
          /\ u.password = IF z.password \in Masks THEN StoredPassword(c, z.authority)
                          ELSE z.password
        BY <1>11, <1>12
    <2> HIDE DEF x, y, z, u, Several
    <2>3. u.authority = x.authority
        BY <2>1, <2>2 DEF StandsFor
    <2>4. CASE y.password \notin Masks
        <3>1. u.password = x.password
            BY <2>1, <2>2, <2>4 DEF StandsFor
        <3> QED
            BY <2>3, <3>1 DEF x, u
    <2>5. CASE y.password \in Masks
        <3>1. u.password = StoredPassword(c, x.authority)
            BY <2>1, <2>2, <2>5 DEF StandsFor
        <3>2. CASE e.change = "rename" /\ e.to = x.authority
            BY <2>3, <3>1, <3>2 DEF x, u
        <3>3. CASE Several(x.authority)
            BY <2>3, <3>1, <3>3 DEF x, u
        <3>4. CASE ~(e.change = "rename" /\ e.to = x.authority) /\ ~Several(x.authority)
            <4>1. PICK j \in DOMAIN c.auths : /\ c.auths[j].authority = x.authority
                                              /\ c.auths[j].password = x.password
                BY <2>1, <2>5, <3>4 DEF StandsFor
            <4>2. ~ \E l, k \in DOMAIN c.auths : /\ l # k
                                                  /\ c.auths[l].authority = c.auths[j].authority
                                                  /\ c.auths[k].authority = c.auths[j].authority
                BY <3>4, <4>1 DEF Several
            <4>3. StoredPassword(c, x.authority) = x.password
                BY <4>1, <4>2, OnlyOne
            <4> QED
                BY <2>3, <3>1, <4>3 DEF x, u
        <3> QED
            BY <3>2, <3>3, <3>4
    <2> QED
        BY <2>4, <2>5
<1>15. new.proxy = meant.proxy /\ DOMAIN new.auths = DOMAIN meant.auths
    BY <1>3, <1>5, <1>6, <1>12, <1>13
<1> HIDE DEF Several
<1>16. Transparent(c, e, new)
    BY <1>13, <1>14, <1>15, Zenon DEF Transparent, meant, Several
<1> QED
    BY <1>16 DEF new, sent

\* The masks are transparent: whatever a client edits of the configuration it was shown
\* masked, and with either mask, a pod that still has that configuration ends up with the
\* same edit of the real one, entry by entry, but for the entries whose authority has
\* several of them or is new to them: those that come back masked get the password that
\* counted for it.
THEOREM MasksNeverShow == Spec => MasksAreTransparent
<1>1. ASSUME Types, [Next]_vars, NEW c \in Clients, NEW p \in Pods, SavesWhatItRead(c, p)
      PROVE  Transparent(config[p], edit[c], config'[p])
    <2>0. step[c] = "editing" /\ step'[c] = "open" /\ at'[c] = p /\ base[c] = config[p]
        BY <1>1 DEF SavesWhatItRead
    <2>1. step \in [Clients -> {"away", "editing", "open", "write", "snapshot", "http",
                                "https", "answered", "cut"}]
          /\ at \in [Clients -> Pods \union {Nobody}] /\ DOMAIN config = Pods
        BY <1>1 DEF Types, TypeOK
    <2>2. PICK d \in Clients, q \in Pods, mask \in Masks : Save(d, q, mask)
        <3>1. ASSUME NEW d \in Clients, NEW q \in Pods, NEW e \in Edits, Get(d, q, e)
              PROVE  FALSE
            BY <2>0, <2>1, <3>1 DEF Get, Goto
        <3>2. ASSUME NEW d \in Clients,
                     OpenFile(d) \/ WriteFile(d) \/ Snapshot(d) \/ SetHTTP(d) \/ SetHTTPS(d)
              PROVE  FALSE
            BY <2>0, <2>1, <3>2 DEF OpenFile, WriteFile, Snapshot, SetHTTP, SetHTTPS, SetEnv, Goto
        <3>3. ASSUME NEW q \in Pods, Die(q) \/ Start(q) \/ \E s \in Scans : RunScan(s, q)
              PROVE  FALSE
            BY <2>0, <2>1, <3>3 DEF Die, Start, RunScan, saveVars
        <3>4. CASE UNCHANGED vars
            BY <2>0, <3>4 DEF vars, saveVars
        <3> QED
            BY <1>1, <3>1, <3>2, <3>3, <3>4 DEF Next
    <2>3. d = c /\ q = p
        BY <2>0, <2>1, <2>2 DEF Save, Goto
    <2>4. config'[p] = Clean(Sent(config[p], edit[c], mask), config[p])
        BY <2>0, <2>1, <2>2, <2>3 DEF Save, Sent
    <2>5. IsConfig(config[p]) /\ edit[c] \in Edits
        BY <1>1, <2>0 DEF Types, TypeOK, Requests
    <2> QED
        BY <2>4, <2>5, SaveIsTransparent
<1> DEFINE A == \A c \in Clients, p \in Pods :
                   SavesWhatItRead(c, p) => Transparent(config[p], edit[c], config'[p])
<1>2. ASSUME Types, [Next]_vars PROVE [A]_vars
    BY <1>1, <1>2
<1> QED
    BY <1>2, AlwaysTypes, PTL DEF Spec, MasksAreTransparent
=============================================================================
