--------------------------- MODULE LifecycleProofs ---------------------------
(***************************************************************************)
(* Proofs about Lifecycle, for any number of user tasks and any of the     *)
(* seventeen modules: nobody inside a module loses what he works with,     *)
(* nothing that is held dangles, and nothing is left at the end, whatever  *)
(* fails on the way.                                                       *)
(*                                                                         *)
(* The argument has two halves.  PlansAreSound is about the tables: each   *)
(* init acquires in an order that can be undone, each of its labels undoes *)
(* what has been acquired when it is jumped to, and exit undoes all of it. *)
(* The rest is about the steps: whatever plan has these two properties is  *)
(* carried out safely, among any opens, callbacks and unbindings.          *)
(***************************************************************************)
EXTENDS Lifecycle, SequenceTheorems, TLAPS

\* What must be held as long as r is, or as long as somebody is behind it.
Needs(r) ==
  Base(r) \cup UsedBehind(r) \cup (IF r = "irq" THEN UsedBehind("irq_thread") ELSE {})

\* To release the resources of s in this order undoes all of H, and each of them
\* goes before what it needs.
Undoes(s, H) ==
  /\ s \in Seq(Resources) /\ IsInjective(s) /\ Range(s) = H
  /\ \A i \in DOMAIN s : \A r \in Needs(s[i]) : \E j \in DOMAIN s : j > i /\ s[j] = r

Before(s, i) == {s[j] : j \in 1..(i - 1)}

\* To acquire the resources of s in this order completes H, each of them comes
\* after what it needs, and where one fails the label undoes what there is by then.
Completes(s, H) ==
  /\ s \in Seq(Resources) /\ IsInjective(s)
  /\ H \cap Range(s) = {} /\ H \cup Range(s) = Resources
  /\ \A i \in DOMAIN s :
       /\ Needs(s[i]) \subseteq H \cup Before(s, i)
       /\ s[i] \in DOMAIN Plan[lesson].fails
            => Undoes(From(Plan[lesson].fails[s[i]]), H \cup Before(s, i))

SoundPlan ==
  /\ Completes(Plan[lesson].acquire, {})
  /\ Undoes(Plan[lesson].exit, Resources)
  /\ \A d \in Files, e \in Files \cap Resources : d = e \/ UsedBehind(d) = {}
  /\ "irq_thread" \notin Resources

-----------------------------------------------------------------------------
(* The inductive invariant *)

\* Where insmod or rmmod is, what it has still to do fits what is held.
Plans ==
  /\ cpu = "init" => Completes(todo, held)
  /\ cpu \in {"undo", "unbind", "exit"} => Undoes(todo, held)
  /\ cpu = "loaded" => todo = <<>> /\ held = Resources
  /\ cpu \in {"failed", "unbound", "unloaded"} => todo = <<>> /\ held = {}
  /\ waiting # "none" => cpu \in {"undo", "unbind", "exit"} /\ waiting \notin held

\* What is needed is held, by a door that is being waited for as well.
Standing == \A r \in held \cup ({waiting} \ {"none"}) : Needs(r) \subseteq held

Phases ==
  /\ cpu \in {"init", "undo"} => module \in {"coming", "live"}
  /\ cpu \in {"loaded", "unbind", "unbound"} => module = "live"
  /\ cpu = "exit" => module = "going"
  /\ cpu \in {"failed", "unloaded"} => module = "gone"
  /\ cpu = "failed" => lesson \notin Drivers
  /\ cpu \in {"unbind", "unbound"} => lesson \in Drivers

Door(d) == IF d = "irq_thread" THEN "irq" ELSE d

\* A callback runs behind a door that is open or being waited for.
Callbacks ==
  /\ \A d \in running : Door(d) \in held \cup {waiting}
  /\ \A t \in Tasks : user[t] = "callback" => "attributes" \in held \cup {waiting}

OpenFiles ==
  \A t \in Tasks :
    /\ user[t] \in {"opening", "open"} =>
         /\ \A d \in Files : UsedBehind(d) \subseteq held
         /\ cpu # "failed"
    /\ HasFile(t) => cpu \notin {"exit", "unloaded"}

IInv == TypeOK /\ Plans /\ Standing /\ Phases /\ Callbacks /\ OpenFiles

-----------------------------------------------------------------------------
(* Lemmas on plans *)

\* The definitions about plans depend on the module alone, and that stays.
LEMMA SamePlan ==
  ASSUME UNCHANGED lesson
  PROVE  /\ Resources' = Resources
         /\ \A r : UsedBehind(r)' = UsedBehind(r) /\ Needs(r)' = Needs(r)
         /\ Undoes(todo, held)' = Undoes(todo', held')
         /\ Completes(todo, held)' = Completes(todo', held')
<1>1. Resources' = Resources
  BY DEF Resources
<1>2. \A r : UsedBehind(r)' = UsedBehind(r)
  BY DEF UsedBehind
<1>3. \A r : Base(r)' = Base(r)
  BY <1>1 DEF Base
<1>4. \A r : Needs(r)' = Needs(r)
  BY <1>2, <1>3 DEF Needs
<1>5. \A label : From(label)' = From(label)
  BY DEF From
<1>6. \A s, H : Undoes(s, H)' = Undoes(s, H)
  BY <1>1, <1>4 DEF Undoes
<1>7. \A s, H : Completes(s, H)' = Completes(s, H)
  BY <1>1, <1>4, <1>5, <1>6 DEF Completes
<1>8. Undoes(todo, held)' = Undoes(todo', held')
  BY <1>1, <1>4 DEF Undoes
<1>9. Completes(todo, held)' = Completes(todo', held')
  BY <1>1, <1>4, <1>5, <1>6 DEF Completes
<1> QED  BY <1>1, <1>2, <1>4, <1>8, <1>9

\* One release later.
LEMMA ReleaseOne ==
  ASSUME NEW s, NEW H, Undoes(s, H), s # <<>>
  PROVE  /\ Head(s) \in H /\ H \subseteq Resources
         /\ Undoes(Tail(s), H \ {Head(s)})
         /\ \A r \in H : Needs(r) \subseteq H \ {Head(s)}
<1>1. /\ s \in Seq(Resources) /\ DOMAIN s = 1..Len(s) /\ Len(s) \in Nat \ {0}
      /\ \A i, j \in 1..Len(s) : s[i] = s[j] => i = j
      /\ H = {s[i] : i \in 1..Len(s)}
  BY EmptySeq, LenProperties DEF Undoes, IsInjective, Range
<1>2. \A i \in 1..Len(s) : \A r \in Needs(s[i]) : \E j \in 1..Len(s) : j > i /\ s[j] = r
  BY <1>1 DEF Undoes
<1> DEFINE u == Tail(s)
<1>3. /\ u \in Seq(Resources) /\ Len(u) = Len(s) - 1 /\ DOMAIN u = 1..(Len(s) - 1)
      /\ \A i \in 1..(Len(s) - 1) : u[i] = s[i + 1]
      /\ Head(s) = s[1]
  BY <1>1, HeadTailProperties, LenProperties
<1> HIDE DEF u
<1>4. Head(s) \in H /\ H \subseteq Resources
  BY <1>1, <1>3
<1>5. \A r \in H : Needs(r) \subseteq H \ {Head(s)}
  BY <1>1, <1>2, <1>3
<1>6. IsInjective(u)
  BY <1>1, <1>3 DEF IsInjective
<1>7. Range(u) = H \ {Head(s)}
  <2>1. ASSUME NEW r \in H, r # s[1] PROVE r \in Range(u)
    <3>1. PICK i \in 1..Len(s) : r = s[i]
      BY <1>1
    <3>2. i - 1 \in DOMAIN u /\ u[i - 1] = r
      BY <1>1, <1>3, <2>1, <3>1
    <3> QED  BY <3>2 DEF Range
  <2>2. ASSUME NEW i \in DOMAIN u PROVE u[i] \in H /\ u[i] # s[1]
    BY <1>1, <1>3
  <2> QED  BY <1>3, <2>1, <2>2 DEF Range
<1>8. ASSUME NEW i \in DOMAIN u, NEW r \in Needs(u[i])
      PROVE  \E j \in DOMAIN u : j > i /\ u[j] = r
  <2>1. PICK j \in 1..Len(s) : j > i + 1 /\ s[j] = r
    BY <1>1, <1>2, <1>3
  <2>2. j - 1 \in DOMAIN u /\ j - 1 > i /\ u[j - 1] = r
    BY <1>1, <1>3, <2>1
  <2> QED  BY <2>2
<1>9. Undoes(u, H \ {Head(s)})
  BY <1>3, <1>6, <1>7, <1>8 DEF Undoes
<1> QED  BY <1>4, <1>5, <1>9 DEF u

\* Nothing is left when there is nothing to do.
LEMMA ReleasedAll ==
  ASSUME NEW H, Undoes(<<>>, H)
  PROVE  H = {}
  BY EmptySeq DEF Undoes, Range

\* One acquisition later, or where it fails.
LEMMA AcquireOne ==
  ASSUME NEW s, NEW H, Completes(s, H), s # <<>>
  PROVE  /\ Head(s) \in Resources \ H
         /\ Needs(Head(s)) \subseteq H
         /\ Completes(Tail(s), H \cup {Head(s)})
         /\ Head(s) \in DOMAIN Plan[lesson].fails
              => Undoes(From(Plan[lesson].fails[Head(s)]), H)
<1>1. /\ s \in Seq(Resources) /\ DOMAIN s = 1..Len(s) /\ Len(s) \in Nat \ {0}
      /\ \A i, j \in 1..Len(s) : s[i] = s[j] => i = j
      /\ \A i \in 1..Len(s) : s[i] \in Resources \ H
      /\ \A r \in Resources \ H : \E i \in 1..Len(s) : r = s[i]
      /\ H \subseteq Resources
  BY EmptySeq, LenProperties DEF Completes, IsInjective, Range
<1> DEFINE Fine(r, had) ==
             /\ Needs(r) \subseteq had
             /\ r \in DOMAIN Plan[lesson].fails => Undoes(From(Plan[lesson].fails[r]), had)
<1>2. \A i \in 1..Len(s) : Fine(s[i], H \cup Before(s, i))
  BY <1>1 DEF Completes
<1> HIDE DEF Fine
<1> DEFINE u == Tail(s)
<1>3. /\ u \in Seq(Resources) /\ Len(u) = Len(s) - 1 /\ DOMAIN u = 1..(Len(s) - 1)
      /\ \A i \in 1..(Len(s) - 1) : u[i] = s[i + 1]
      /\ Head(s) = s[1]
  BY <1>1, HeadTailProperties, LenProperties
<1> HIDE DEF u
<1>4. Fine(s[1], H)
  <2>1. H \cup Before(s, 1) = H
    BY DEF Before
  <2>2. Fine(s[1], H \cup Before(s, 1))
    BY <1>1, <1>2
  <2> QED  BY <2>1, <2>2
<1>5. ASSUME NEW i \in DOMAIN u PROVE Fine(u[i], (H \cup {s[1]}) \cup Before(u, i))
  <2>1. i + 1 \in 1..Len(s) /\ u[i] = s[i + 1]
    BY <1>1, <1>3
  <2>2. H \cup Before(s, i + 1) = (H \cup {s[1]}) \cup Before(u, i)
    <3>1. ASSUME NEW j \in 1..i PROVE s[j] \in {s[1]} \cup Before(u, i)
      <4>1. CASE j = 1
        BY <4>1
      <4>2. CASE j # 1
        <5>1. j - 1 \in 1..(i - 1) /\ u[j - 1] = s[j]
          BY <1>1, <1>3, <4>2
        <5> QED  BY <5>1 DEF Before
      <4> QED  BY <4>1, <4>2
    <3>2. ASSUME NEW j \in 1..(i - 1) PROVE u[j] \in Before(s, i + 1)
      <4>1. j + 1 \in 1..((i + 1) - 1) /\ u[j] = s[j + 1]
        BY <1>1, <1>3
      <4> QED  BY <4>1 DEF Before
    <3>3. s[1] \in Before(s, i + 1)
      BY <1>1, <1>3 DEF Before
    <3>4. Before(s, i + 1) = {s[j] : j \in 1..i} /\ Before(u, i) = {u[j] : j \in 1..(i - 1)}
      BY <1>3 DEF Before
    <3> QED  BY <3>1, <3>2, <3>3, <3>4
  <2> QED  BY <1>2, <2>1, <2>2
<1>6. IsInjective(u)
  BY <1>1, <1>3 DEF IsInjective
<1>7. (H \cup {s[1]}) \cap Range(u) = {} /\ (H \cup {s[1]}) \cup Range(u) = Resources
  <2>1. ASSUME NEW r \in Resources, r \notin H, r # s[1] PROVE r \in Range(u)
    <3>1. PICK i \in 1..Len(s) : r = s[i]
      BY <1>1, <2>1
    <3>2. i - 1 \in DOMAIN u /\ u[i - 1] = r
      BY <1>1, <1>3, <2>1, <3>1
    <3> QED  BY <3>2 DEF Range
  <2>2. ASSUME NEW i \in DOMAIN u PROVE u[i] \in Resources \ H /\ u[i] # s[1]
    BY <1>1, <1>3
  <2> QED  BY <1>1, <2>1, <2>2 DEF Range
<1>8. Completes(u, H \cup {s[1]})
  BY <1>3, <1>5, <1>6, <1>7 DEF Completes, Fine
<1> QED  BY <1>1, <1>3, <1>4, <1>8 DEF Fine, u

\* Everything is held when there is nothing left to acquire.
LEMMA AcquiredAll ==
  ASSUME NEW H, Completes(<<>>, H)
  PROVE  H = Resources
  BY EmptySeq DEF Completes, Range

-----------------------------------------------------------------------------
(* The tables *)

\* exit releases in the reverse order of acquire, the labels are exit without its
\* first release, and an acquisition that fails jumps to the label of the one
\* before it.
Mirrored ==
  LET acquire == Plan[lesson].acquire
      fails   == Plan[lesson].fails
      labels  == Plan[lesson].labels
      exit    == Plan[lesson].exit
      n       == Len(exit)
  IN  /\ acquire \in Seq(Resources) /\ Len(acquire) = n
      /\ \A i \in 1..n : acquire[i] = exit[n + 1 - i]
      /\ labels # <<>> => /\ labels \in Seq(Resources) /\ Len(labels) = n - 1
                          /\ \A k \in 1..(n - 1) : labels[k] = exit[k + 1]
      /\ \A i \in 1..n :
           acquire[i] \in DOMAIN fails =>
             IF i = 1 THEN fails[acquire[i]] = "return"
             ELSE labels # <<>> /\ fails[acquire[i]] = labels[n + 1 - i]
      /\ "return" \notin Resources

\* Such an order is as good as exit's.
LEMMA MirroredPlan ==
  ASSUME Mirrored, Undoes(Plan[lesson].exit, Resources)
  PROVE  Completes(Plan[lesson].acquire, {})
<1> DEFINE a      == Plan[lesson].acquire
           fails  == Plan[lesson].fails
           labels == Plan[lesson].labels
           x      == Plan[lesson].exit
           n      == Len(x)
<1>1. /\ x \in Seq(Resources) /\ n \in Nat /\ DOMAIN x = 1..n
      /\ \A i, j \in 1..n : x[i] = x[j] => i = j
      /\ Resources = {x[i] : i \in 1..n}
  BY LenProperties DEF Undoes, IsInjective, Range
<1>2. \A i \in 1..n : \A r \in Needs(x[i]) : \E j \in 1..n : j > i /\ x[j] = r
  BY <1>1 DEF Undoes
<1>3. /\ a \in Seq(Resources) /\ Len(a) = n /\ DOMAIN a = 1..n
      /\ \A i \in 1..n : a[i] = x[n + 1 - i]
  BY LenProperties DEF Mirrored
<1>4. labels # <<>> => /\ labels \in Seq(Resources) /\ DOMAIN labels = 1..(n - 1)
                       /\ Len(labels) = n - 1
                       /\ \A k \in 1..(n - 1) : labels[k] = x[k + 1]
  BY LenProperties DEF Mirrored
<1>5. /\ \A i \in 1..n :
           a[i] \in DOMAIN fails =>
             IF i = 1 THEN fails[a[i]] = "return"
             ELSE labels # <<>> /\ fails[a[i]] = labels[n + 1 - i]
      /\ "return" \notin Resources
  BY DEF Mirrored
<1>6. /\ \A l : l # "return" =>
           From(l) = SubSeq(labels, CHOOSE k \in DOMAIN labels : labels[k] = l, Len(labels))
      /\ From("return") = <<>>
  BY DEF From
<1> HIDE DEF a, fails, labels, x, n
<1>7. IsInjective(a) /\ {} \cap Range(a) = {} /\ {} \cup Range(a) = Resources
  <2>1. IsInjective(a)
    BY <1>1, <1>3 DEF IsInjective
  <2>2. ASSUME NEW r \in Resources PROVE r \in Range(a)
    <3>1. PICK i \in 1..n : r = x[i]
      BY <1>1
    <3>2. n + 1 - i \in DOMAIN a /\ a[n + 1 - i] = r
      BY <1>1, <1>3, <3>1
    <3> QED  BY <3>2 DEF Range
  <2>3. Range(a) \subseteq Resources
    BY <1>1, <1>3 DEF Range
  <2> QED  BY <2>1, <2>2, <2>3
<1>8. ASSUME NEW i \in 1..n PROVE Needs(a[i]) \subseteq Before(a, i)
  <2> SUFFICES ASSUME NEW r \in Needs(a[i]) PROVE r \in Before(a, i)
    OBVIOUS
  <2>1. PICK j \in 1..n : j > n + 1 - i /\ x[j] = r
    BY <1>1, <1>2, <1>3
  <2>2. n + 1 - j \in 1..(i - 1) /\ a[n + 1 - j] = r
    BY <1>1, <1>3, <2>1
  <2> QED  BY <2>2 DEF Before
<1>9. ASSUME NEW i \in 1..n, a[i] \in DOMAIN fails
      PROVE  Undoes(From(fails[a[i]]), Before(a, i))
  <2>1. CASE i = 1
    <3>1. From(fails[a[i]]) = <<>> /\ Before(a, i) = {}
      BY <1>5, <1>6, <1>9, <2>1 DEF Before
    <3> QED  BY <3>1, EmptySeq DEF Undoes, IsInjective, Range
  <2>2. CASE i # 1
    \* The label is the k-th, and the rest of exit from there on is s.
    <3> DEFINE k == n + 1 - i
               s == SubSeq(labels, k, n - 1)
    <3>1. k \in 1..(n - 1) /\ labels # <<>> /\ fails[a[i]] = labels[k]
      BY <1>1, <1>5, <1>9, <2>2
    <3>2. From(labels[k]) = s
      <4> DEFINE c == CHOOSE m \in DOMAIN labels : labels[m] = x[k + 1]
      <4>1. labels[k] = x[k + 1] /\ k + 1 \in 1..n /\ k \in DOMAIN labels
        BY <1>1, <1>4, <3>1
      <4>0. labels[k] # "return"
        BY <1>1, <1>5, <4>1
      <4>2. c \in DOMAIN labels /\ labels[c] = x[k + 1]
        BY <4>1
      <4>3. c = k
        <5> HIDE DEF c, k
        <5>1. c \in 1..(n - 1) /\ x[c + 1] = x[k + 1]
          BY <1>4, <3>1, <4>2
        <5> QED  BY <1>1, <3>1, <5>1
      <4> QED  BY <1>4, <1>6, <3>1, <4>0, <4>1, <4>3
    <3>3. /\ s \in Seq(Resources) /\ Len(s) = i - 1 /\ DOMAIN s = 1..(i - 1)
          /\ \A m \in 1..(i - 1) : s[m] = x[k + m]
      <4>1. \A m \in k..(n - 1) : labels[m] \in Resources
        BY <1>1, <1>4, <3>1
      <4>2. /\ s \in Seq(Resources) /\ Len(s) = (n - 1) - k + 1
            /\ \A m \in 1..((n - 1) - k + 1) : s[m] = labels[k + m - 1]
        <5> HIDE DEF k
        <5> DEFINE top == n - 1
        <5>1. k \in Int /\ top \in Int /\ k <= top
          BY <1>1, <3>1
        <5> HIDE DEF top
        <5>2. \A m \in k..top : labels[m] \in Resources
          BY <4>1 DEF top
        <5>3. /\ SubSeq(labels, k, top) \in Seq(Resources)
              /\ Len(SubSeq(labels, k, top)) = top - k + 1
              /\ \A m \in 1..(top - k + 1) : SubSeq(labels, k, top)[m] = labels[k + m - 1]
          BY <5>1, <5>2, SubSeqProperties
        <5> QED  BY <5>3 DEF top
      <4> HIDE DEF s
      <4>3. (n - 1) - k + 1 = i - 1 /\ \A m \in 1..(i - 1) : k + m - 1 \in 1..(n - 1)
        BY <1>1, <3>1
      <4>4. \A m \in 1..(i - 1) : labels[k + m - 1] = x[k + m]
        BY <1>1, <1>4, <3>1, <4>3
      <4> QED  BY <4>2, <4>3, <4>4, LenProperties
    <3> HIDE DEF s
    <3>a. k = n + 1 - i /\ k \in Int /\ \A m \in 1..(i - 1) : k + m \in 1..n
      BY <1>1, <3>1
    <3> HIDE DEF k
    <3>4. IsInjective(s)
      BY <1>1, <3>a, <3>3 DEF IsInjective
    <3>5. Range(s) = Before(a, i)
      <4>1. ASSUME NEW m \in 1..(i - 1) PROVE s[m] = a[i - m] /\ i - m \in 1..(i - 1)
        <5>1. i - m \in 1..(i - 1) /\ i - m \in 1..n /\ n + 1 - (i - m) = k + m
          BY <1>1, <3>a
        <5>2. a[i - m] = x[k + m]
          BY <1>3, <5>1
        <5> QED  BY <3>3, <5>1, <5>2
      <4>2. ASSUME NEW m \in 1..(i - 1) PROVE a[m] = s[i - m] /\ i - m \in 1..(i - 1)
        <5>1. i - m \in 1..(i - 1) /\ i - (i - m) = m
          BY <1>1
        <5> QED  BY <4>1, <5>1
      <4> QED  BY <3>3, <4>1, <4>2 DEF Range, Before
    <3>6. ASSUME NEW m \in DOMAIN s, NEW r \in Needs(s[m])
          PROVE  \E j \in DOMAIN s : j > m /\ s[j] = r
      <4>1. PICK j \in 1..n : j > k + m /\ x[j] = r
        BY <1>1, <1>2, <3>a, <3>3
      <4>2. j - k \in DOMAIN s /\ j - k > m /\ s[j - k] = r
        BY <1>1, <3>a, <3>3, <4>1
      <4> QED  BY <4>2
    <3> QED  BY <3>1, <3>2, <3>3, <3>4, <3>5, <3>6 DEF Undoes
  <2> QED  BY <2>1, <2>2
<1> QED  BY <1>3, <1>7, <1>8, <1>9 DEF Completes, a, fails

\* The cdev of lessons 04 to 08 (si_char04.c:162-226).
LEMMA PlanCharDevice ==
  ASSUME Plan[lesson] = CharDevice
  PROVE  SoundPlan
<1>1. /\ Plan[lesson].acquire = <<"region", "cdev", "class", "device">>
      /\ Plan[lesson].exit = <<"device", "class", "cdev", "region">>
      /\ Plan[lesson].labels = <<"class", "cdev", "region">>
      /\ Plan[lesson].fails = [region |-> "return", cdev |-> "region", class |-> "cdev",
                              device |-> "class"]
  BY DEF CharDevice
<1>2. Resources = {"device", "class", "cdev", "region"}
  BY <1>1 DEF Resources, Range
<1>3. /\ Needs("device") = {"class", "cdev"}
      /\ Needs("class") = {}
      /\ Needs("cdev") = {"region"}
      /\ Needs("region") = {}
  BY <1>2 DEF CharDevice, Needs, Base, UsedBehind, Works
<1>4. \A d \in Files, e \in Files \cap Resources : d = e \/ UsedBehind(d) = {}
  BY <1>2 DEF CharDevice, UsedBehind, Files
<1>5. Undoes(Plan[lesson].exit, Resources)
  BY <1>1, <1>2, <1>3 DEF Undoes, IsInjective, Range
<1>6. Mirrored
  BY <1>1, <1>2 DEF Mirrored
<1> QED  BY <1>2, <1>4, <1>5, <1>6, MirroredPlan DEF SoundPlan

\* The cdev of lessons 16 and 21 and its data (si_ioctl16.c:216-276).
LEMMA PlanIoctl16 ==
  ASSUME Plan[lesson] = Ioctl16
  PROVE  SoundPlan
<1>1. /\ Plan[lesson].acquire = <<"data", "region", "cdev", "class", "device">>
      /\ Plan[lesson].exit = <<"device", "class", "cdev", "region", "data">>
      /\ Plan[lesson].labels = <<"class", "cdev", "region", "data">>
      /\ Plan[lesson].fails = [data |-> "return", region |-> "data", cdev |-> "region",
                              class |-> "cdev", device |-> "class"]
  BY DEF Ioctl16
<1>2. Resources = {"device", "class", "cdev", "region", "data"}
  BY <1>1 DEF Resources, Range
<1>3. /\ Needs("device") = {"class", "cdev"}
      /\ Needs("class") = {}
      /\ Needs("cdev") = {"data", "region"}
      /\ Needs("region") = {}
      /\ Needs("data") = {}
  BY <1>2 DEF Ioctl16, Needs, Base, UsedBehind, Works
<1>4. \A d \in Files, e \in Files \cap Resources : d = e \/ UsedBehind(d) = {}
  BY <1>2 DEF Ioctl16, UsedBehind, Files
<1>5. Undoes(Plan[lesson].exit, Resources)
  BY <1>1, <1>2, <1>3 DEF Undoes, IsInjective, Range
<1>6. Mirrored
  BY <1>1, <1>2 DEF Mirrored
<1> QED  BY <1>2, <1>4, <1>5, <1>6, MirroredPlan DEF SoundPlan

\* The attributes of lesson 13 (si_sysfs13.c:189-243).
LEMMA PlanSysfs13 ==
  ASSUME Plan[lesson] = Sysfs13
  PROVE  SoundPlan
<1>1. /\ Plan[lesson].acquire = <<"data", "class", "device", "attributes">>
      /\ Plan[lesson].exit = <<"attributes", "device", "class", "data">>
      /\ Plan[lesson].labels = <<"device", "class", "data">>
      /\ Plan[lesson].fails = [data |-> "return", class |-> "data", device |-> "class",
                              attributes |-> "device"]
  BY DEF Sysfs13
<1>2. Resources = {"attributes", "device", "class", "data"}
  BY <1>1 DEF Resources, Range
<1>3. /\ Needs("attributes") = {"data", "device"}
      /\ Needs("device") = {"class"}
      /\ Needs("class") = {}
      /\ Needs("data") = {}
  BY <1>2 DEF Sysfs13, Needs, Base, UsedBehind, Works
<1>4. Files \cap Resources = {}
  BY <1>2 DEF Files
<1>5. Undoes(Plan[lesson].exit, Resources)
  BY <1>1, <1>2, <1>3 DEF Undoes, IsInjective, Range
<1>6. Mirrored
  BY <1>1, <1>2 DEF Mirrored
<1> QED  BY <1>2, <1>4, <1>5, <1>6, MirroredPlan DEF SoundPlan

\* The interrupt of lesson 12, which devm releases (si_platform_irq12.c:98-172).
LEMMA PlanPlatformIrq12 ==
  ASSUME Plan[lesson] = PlatformIrq12
  PROVE  SoundPlan
<1>1. /\ Plan[lesson].acquire = <<"data", "button", "irq">>
      /\ Plan[lesson].exit = <<"irq", "button", "data">>
      /\ Plan[lesson].labels = <<"button", "data">>
      /\ Plan[lesson].fails = [data |-> "return", button |-> "data", irq |-> "button"]
  BY DEF PlatformIrq12
<1>2. Resources = {"irq", "button", "data"}
  BY <1>1 DEF Resources, Range
<1>3. /\ Needs("irq") = {"data", "button"}
      /\ Needs("button") = {}
      /\ Needs("data") = {}
  BY <1>2 DEF PlatformIrq12, Needs, Base, UsedBehind, Works
<1>4. Files \cap Resources = {}
  BY <1>2 DEF Files
<1>5. Undoes(Plan[lesson].exit, Resources)
  BY <1>1, <1>2, <1>3 DEF Undoes, IsInjective, Range
<1>6. Mirrored
  BY <1>1, <1>2 DEF Mirrored
<1> QED  BY <1>2, <1>4, <1>5, <1>6, MirroredPlan DEF SoundPlan

\* The miscdevice of lessons 21 and 22 (si_temp21.c:105-155).
LEMMA PlanTemp21 ==
  ASSUME Plan[lesson] = Temp21
  PROVE  SoundPlan
<1>1. /\ Plan[lesson].acquire = <<"data", "misc">>
      /\ Plan[lesson].exit = <<"misc", "data">>
      /\ Plan[lesson].labels = <<"data">>
      /\ Plan[lesson].fails = [data |-> "return", misc |-> "data"]
  BY DEF Temp21
<1>2. Resources = {"misc", "data"}
  BY <1>1 DEF Resources, Range
<1>3. /\ Needs("misc") = {"data"}
      /\ Needs("data") = {}
  BY <1>2 DEF Temp21, Needs, Base, UsedBehind, Works
<1>4. \A d \in Files, e \in Files \cap Resources : d = e \/ UsedBehind(d) = {}
  BY <1>2 DEF Temp21, UsedBehind, Files
<1>5. Undoes(Plan[lesson].exit, Resources)
  BY <1>1, <1>2, <1>3 DEF Undoes, IsInjective, Range
<1>6. Mirrored
  BY <1>1, <1>2 DEF Mirrored
<1> QED  BY <1>2, <1>4, <1>5, <1>6, MirroredPlan DEF SoundPlan

\* The works of lesson 09 (si_workqueue09.c:187-225).
LEMMA PlanWorkqueue09 ==
  ASSUME Plan[lesson] = Workqueue09
  PROVE  SoundPlan
<1>1. /\ Plan[lesson].acquire = <<"queue", "immediate", "delayed">>
      /\ Plan[lesson].exit = <<"delayed", "immediate", "queue">>
      /\ Plan[lesson].labels = <<>>
      /\ Plan[lesson].fails = [queue |-> "return"]
  BY DEF Workqueue09
<1>2. Resources = {"delayed", "immediate", "queue"}
  BY <1>1 DEF Resources, Range
<1>3. /\ Needs("delayed") = {"queue"}
      /\ Needs("immediate") = {"queue"}
      /\ Needs("queue") = {}
  BY <1>2 DEF Workqueue09, Needs, Base, UsedBehind, Works
<1>4. Files \cap Resources = {}
  BY <1>2 DEF Files
<1>5. Undoes(Plan[lesson].exit, Resources)
  BY <1>1, <1>2, <1>3 DEF Undoes, IsInjective, Range
<1>6. Mirrored
  BY <1>1, <1>2 DEF Mirrored
<1> QED  BY <1>2, <1>4, <1>5, <1>6, MirroredPlan DEF SoundPlan

\* The threaded interrupt of lesson 11 (si_irq11.c:194-223).
LEMMA PlanIrq11 ==
  ASSUME Plan[lesson] = Irq11
  PROVE  SoundPlan
<1>1. /\ Plan[lesson].acquire = <<"irq">>
      /\ Plan[lesson].exit = <<"irq">>
      /\ Plan[lesson].labels = <<>>
      /\ Plan[lesson].fails = [irq |-> "return"]
  BY DEF Irq11
<1>2. Resources = {"irq"}
  BY <1>1 DEF Resources, Range
<1>3. /\ Needs("irq") = {}
  BY <1>2 DEF Irq11, Needs, Base, UsedBehind, Works
<1>4. Files \cap Resources = {}
  BY <1>2 DEF Files
<1>5. Undoes(Plan[lesson].exit, Resources)
  BY <1>1, <1>2, <1>3 DEF Undoes, IsInjective, Range
<1>6. Mirrored
  BY <1>1, <1>2 DEF Mirrored
<1> QED  BY <1>2, <1>4, <1>5, <1>6, MirroredPlan DEF SoundPlan

\* The plain one (si_irq11_plain.c:62-101).
LEMMA PlanIrq11Plain ==
  ASSUME Plan[lesson] = Irq11Plain
  PROVE  SoundPlan
<1>1. /\ Plan[lesson].acquire = <<"irq">>
      /\ Plan[lesson].exit = <<"irq">>
      /\ Plan[lesson].labels = <<>>
      /\ Plan[lesson].fails = [irq |-> "return"]
  BY DEF Irq11Plain, Irq11
<1>2. Resources = {"irq"}
  BY <1>1 DEF Resources, Range
<1>3. /\ Needs("irq") = {}
  BY <1>2 DEF Irq11Plain, Irq11, Needs, Base, UsedBehind, Works
<1>4. Files \cap Resources = {}
  BY <1>2 DEF Files
<1>5. Undoes(Plan[lesson].exit, Resources)
  BY <1>1, <1>2, <1>3 DEF Undoes, IsInjective, Range
<1>6. Mirrored
  BY <1>1, <1>2 DEF Mirrored
<1> QED  BY <1>2, <1>4, <1>5, <1>6, MirroredPlan DEF SoundPlan

\* The thread of lesson 17 (si_kthread17.c:78-110).
LEMMA PlanKthread17 ==
  ASSUME Plan[lesson] = Kthread17
  PROVE  SoundPlan
<1>1. /\ Plan[lesson].acquire = <<"thread">>
      /\ Plan[lesson].exit = <<"thread">>
      /\ Plan[lesson].labels = <<>>
      /\ Plan[lesson].fails = [thread |-> "return"]
  BY DEF Kthread17
<1>2. Resources = {"thread"}
  BY <1>1 DEF Resources, Range
<1>3. /\ Needs("thread") = {}
  BY <1>2 DEF Kthread17, Needs, Base, UsedBehind, Works
<1>4. Files \cap Resources = {}
  BY <1>2 DEF Files
<1>5. Undoes(Plan[lesson].exit, Resources)
  BY <1>1, <1>2, <1>3 DEF Undoes, IsInjective, Range
<1>6. Mirrored
  BY <1>1, <1>2 DEF Mirrored
<1> QED  BY <1>2, <1>4, <1>5, <1>6, MirroredPlan DEF SoundPlan

\* The timer of lesson 18 (si_timer18.c:102-135).
LEMMA PlanTimer18 ==
  ASSUME Plan[lesson] = Timer18
  PROVE  SoundPlan
<1>1. /\ Plan[lesson].acquire = <<"timer">>
      /\ Plan[lesson].exit = <<"timer">>
      /\ Plan[lesson].labels = <<>>
      /\ Plan[lesson].fails = <<>>
  BY DEF Timer18
<1>2. Resources = {"timer"}
  BY <1>1 DEF Resources, Range
<1>3. /\ Needs("timer") = {}
  BY <1>2 DEF Timer18, Needs, Base, UsedBehind, Works
<1>4. Files \cap Resources = {}
  BY <1>2 DEF Files
<1>5. Undoes(Plan[lesson].exit, Resources)
  BY <1>1, <1>2, <1>3 DEF Undoes, IsInjective, Range
<1>6. Mirrored
  BY <1>1, <1>2 DEF Mirrored
<1> QED  BY <1>2, <1>4, <1>5, <1>6, MirroredPlan DEF SoundPlan

\* The tasklets of lesson 10 do not need each other, so that exit may kill them in
\* the order in which init has scheduled them (si_tasklet10.c:175-194).
LEMMA PlanTasklet10 ==
  ASSUME Plan[lesson] = Tasklet10
  PROVE  SoundPlan
<1> DEFINE both == <<"normal", "high">>
<1>1. /\ Plan[lesson].acquire = both /\ Plan[lesson].exit = both
      /\ Plan[lesson].fails = <<>>
  BY DEF Tasklet10
<1>2. Resources = {"normal", "high"}
  BY <1>1 DEF Resources, Range
<1>3. Needs("normal") = {} /\ Needs("high") = {}
  BY <1>2 DEF Tasklet10, Needs, Base, UsedBehind, Works
<1>4. Undoes(both, Resources)
  BY <1>2, <1>3 DEF Undoes, IsInjective, Range
<1>5. Completes(both, {})
  <2>1. DOMAIN Plan[lesson].fails = {}
    BY <1>1
  <2> QED  BY <1>2, <1>3, <2>1 DEF Completes, IsInjective, Range
<1>6. Files \cap Resources = {}
  BY <1>2 DEF Files
<1> QED  BY <1>1, <1>2, <1>4, <1>5, <1>6 DEF SoundPlan

\* Every module has a plan that can be carried out, and undone from anywhere.
THEOREM PlansAreSound ==
  ASSUME lesson \in Names
  PROVE  SoundPlan
<1>1. \/ Plan[lesson] = CharDevice \/ Plan[lesson] = Ioctl16 \/ Plan[lesson] = Sysfs13
      \/ Plan[lesson] = PlatformIrq12 \/ Plan[lesson] = Temp21
      \/ Plan[lesson] = Workqueue09 \/ Plan[lesson] = Irq11 \/ Plan[lesson] = Irq11Plain
      \/ Plan[lesson] = Kthread17 \/ Plan[lesson] = Timer18 \/ Plan[lesson] = Tasklet10
  BY DEF Plan, Names, Mutex05, Spin06, Waitqueue07, Poll08, Spi22, Temp21Cdev
<1> QED
  BY <1>1, PlanCharDevice, PlanIoctl16, PlanSysfs13, PlanPlatformIrq12, PlanTemp21,
     PlanWorkqueue09, PlanIrq11, PlanIrq11Plain, PlanKthread17, PlanTimer18, PlanTasklet10

-----------------------------------------------------------------------------
(* The invariant is inductive *)

\* No module code has been loaded yet.
LEMMA InitIInv == Init => IInv
<1> SUFFICES ASSUME Init PROVE IInv
  OBVIOUS
<1> USE DEF Init
<1>1. SoundPlan
  BY PlansAreSound, LessonAssumption
<1>2. Plans /\ TypeOK
  BY <1>1 DEF Plans, TypeOK, SoundPlan, Completes
<1>3. Standing /\ Phases /\ Callbacks /\ OpenFiles
  BY DEF Standing, Phases, Callbacks, OpenFiles, HasFile
<1> QED  BY <1>2, <1>3 DEF IInv

\* Steps of others change nothing here.
LEMMA StutterIInv == IInv /\ UNCHANGED vars => IInv'
<1> SUFFICES ASSUME IInv, UNCHANGED vars PROVE IInv'
  OBVIOUS
<1> USE DEF IInv, vars, loader, inside
<1>1. /\ Resources' = Resources /\ Plans' /\ Standing'
  BY SamePlan DEF Plans, Standing
<1>2. TypeOK' /\ Phases' /\ Callbacks' /\ OpenFiles'
  BY <1>1, SamePlan DEF TypeOK, Phases, Callbacks, OpenFiles, HasFile
<1> QED  BY <1>1, <1>2

\* A step of insmod or rmmod, in which no callback begins or ends.
LEMMA LoaderIInv ==
  ASSUME IInv, Loading \/ Rmmod \/ Unbind \/ Bind \/ Unloading
  PROVE  IInv'
<1> USE DEF IInv
<1>0. SoundPlan
  BY PlansAreSound, LessonAssumption DEF TypeOK
<1>s. lesson' = lesson
  BY DEF Loading, Acquire, AcquireFails, Loaded, Rmmod, Unbind, Bind, Unloading, Release,
     Waited, Released
<1>r. Resources' = Resources /\ \A r : UsedBehind(r)' = UsedBehind(r) /\ Needs(r)' = Needs(r)
  BY <1>s, SamePlan
<1>1. CASE Acquire
  <2>a. /\ cpu = "init" /\ todo # <<>> /\ waiting = "none"
        /\ held' = held \cup {Head(todo)} /\ todo' = Tail(todo)
        /\ UNCHANGED <<cpu, waiting, module, user, running, spent>>
    BY <1>1 DEF Acquire, inside, Plans
  <2>b. /\ Head(todo) \in Resources /\ Needs(Head(todo)) \subseteq held
        /\ Completes(todo', held')
    BY <2>a, AcquireOne DEF Plans
  <2>1. TypeOK'
    BY <1>s, <1>r, <2>a, <2>b DEF TypeOK, Completes
  <2>2. Plans'
    BY <1>s, <2>a, <2>b, SamePlan DEF Plans
  <2>3. Standing'
    BY <1>r, <2>a, <2>b DEF Standing
  <2>4. Phases' /\ Callbacks'
    BY <1>s, <2>a DEF Phases, Callbacks
  <2>5. OpenFiles'
    BY <1>r, <2>a DEF OpenFiles, HasFile
  <2> QED  BY <2>1, <2>2, <2>3, <2>4, <2>5
<1>2. CASE AcquireFails
  <2>a. /\ cpu = "init" /\ todo # <<>> /\ waiting = "none" /\ cpu' = "undo"
        /\ Head(todo) \in DOMAIN Plan[lesson].fails
        /\ todo' = From(Plan[lesson].fails[Head(todo)])
        /\ UNCHANGED <<waiting, module, held, user, running, spent>>
    BY <1>2 DEF AcquireFails, inside, Plans
  <2>b. Undoes(todo', held')
    BY <2>a, AcquireOne DEF Plans
  <2>1. TypeOK'
    BY <1>s, <1>r, <2>a, <2>b DEF TypeOK, Undoes
  <2>2. Plans'
    BY <1>s, <2>a, <2>b, SamePlan DEF Plans
  <2>3. Standing'
    BY <1>r, <2>a DEF Standing
  <2>4. Phases' /\ Callbacks'
    BY <1>s, <2>a DEF Phases, Callbacks
  <2>5. OpenFiles'
    BY <1>r, <2>a DEF OpenFiles, HasFile
  <2> QED  BY <2>1, <2>2, <2>3, <2>4, <2>5
<1>3. CASE Loaded
  <2>a. /\ cpu = "init" /\ todo = <<>> /\ waiting = "none" /\ cpu' = "loaded"
        /\ module' = "live"
        /\ UNCHANGED <<todo, waiting, held, user, running, spent>>
    BY <1>3 DEF Loaded, inside, Plans
  <2>b. held = Resources
    BY <2>a, AcquiredAll DEF Plans
  <2>1. TypeOK'
    BY <1>s, <1>r, <2>a DEF TypeOK
  <2>2. Plans'
    BY <1>r, <2>a, <2>b DEF Plans
  <2>3. Standing'
    BY <1>r, <2>a DEF Standing
  <2>4. Phases' /\ Callbacks'
    BY <1>s, <2>a DEF Phases, Callbacks
  <2>5. OpenFiles'
    BY <1>r, <2>a DEF OpenFiles, HasFile
  <2> QED  BY <2>1, <2>2, <2>3, <2>4, <2>5
<1>4. CASE Rmmod
  <2>a. /\ cpu \in {"loaded", "unbound"} /\ waiting = "none" /\ cpu' = "exit"
        /\ \A t \in Tasks : ~HasFile(t)
        /\ module' = "going" /\ todo' = IF cpu = "loaded" THEN Plan[lesson].exit ELSE <<>>
        /\ UNCHANGED <<waiting, held, user, running, spent>>
    BY <1>4 DEF Rmmod, inside, Plans
  <2>b. Undoes(todo', held')
    <3>1. CASE cpu = "loaded"
      BY <1>0, <2>a, <3>1 DEF SoundPlan, Plans
    <3>2. CASE cpu = "unbound"
      <4>1. todo' = <<>> /\ held' = {}
        BY <2>a, <3>2 DEF Plans
      <4> QED  BY <4>1, EmptySeq DEF Undoes, IsInjective, Range
    <3> QED  BY <2>a, <3>1, <3>2
  <2>1. TypeOK'
    BY <1>s, <1>r, <2>a, <2>b DEF TypeOK, Undoes
  <2>2. Plans'
    BY <1>s, <2>a, <2>b, SamePlan DEF Plans
  <2>3. Standing'
    BY <1>r, <2>a DEF Standing
  <2>4. Phases' /\ Callbacks'
    BY <1>s, <2>a DEF Phases, Callbacks
  <2>5. OpenFiles'
    BY <1>r, <2>a DEF OpenFiles, HasFile
  <2> QED  BY <2>1, <2>2, <2>3, <2>4, <2>5
<1>5. CASE Unbind
  <2>a. /\ cpu = "loaded" /\ waiting = "none" /\ cpu' = "unbind"
        /\ todo' = Plan[lesson].exit
        /\ UNCHANGED <<waiting, module, held, user, running, spent>>
    BY <1>5 DEF Unbind, inside, Plans
  <2>b. Undoes(todo', held')
    BY <1>0, <2>a DEF SoundPlan, Plans
  <2>1. TypeOK'
    BY <1>s, <1>r, <2>a, <2>b DEF TypeOK, Undoes
  <2>2. Plans'
    BY <1>s, <2>a, <2>b, SamePlan DEF Plans
  <2>3. Standing'
    BY <1>r, <2>a DEF Standing
  <2>4. Phases' /\ Callbacks'
    BY <1>5, <1>s, <2>a DEF Unbind, Phases, Callbacks
  <2>5. OpenFiles'
    BY <1>r, <2>a DEF OpenFiles, HasFile
  <2> QED  BY <2>1, <2>2, <2>3, <2>4, <2>5
<1>6. CASE Bind
  <2>a. /\ cpu = "unbound" /\ waiting = "none" /\ cpu' = "init" /\ held = {}
        /\ todo' = Plan[lesson].acquire
        /\ UNCHANGED <<waiting, module, held, user, running, spent>>
    BY <1>6 DEF Bind, inside, Plans
  <2>b. Completes(todo', held')
    BY <1>0, <2>a DEF SoundPlan
  <2>1. TypeOK'
    BY <1>s, <1>r, <2>a, <2>b DEF TypeOK, Completes
  <2>2. Plans'
    BY <1>s, <2>a, <2>b, SamePlan DEF Plans
  <2>3. Standing'
    BY <1>r, <2>a DEF Standing
  <2>4. Phases' /\ Callbacks'
    BY <1>s, <2>a DEF Phases, Callbacks
  <2>5. OpenFiles'
    BY <1>r, <2>a DEF OpenFiles, HasFile
  <2> QED  BY <2>1, <2>2, <2>3, <2>4, <2>5
<1>7. CASE Release
  <2> DEFINE r == Head(todo)
  <2>a. /\ cpu \in {"undo", "exit", "unbind"} /\ waiting = "none" /\ todo # <<>>
        /\ r \in ClosedFirst \/ r \notin running
        /\ held' = held \ {r} /\ todo' = Tail(todo)
        /\ waiting' = IF r \in ClosedFirst THEN r ELSE "none"
        /\ user' = Orphaned(\E d \in Files : r \in UsedBehind(d))
        /\ UNCHANGED <<cpu, module, running, spent>>
    BY <1>7 DEF Release, Releasing
  <2>b. /\ r \in held /\ Undoes(todo', held') /\ \A q \in held : Needs(q) \subseteq held'
    BY <2>a, ReleaseOne DEF Plans
  <2>c. \A d \in running : Door(d) \in held
    BY <2>a DEF Callbacks, Door, TypeOK, Async, Works, Tasklets
  <2>d. /\ user' \in [Tasks -> {"outside", "opening", "open", "orphan", "callback"}]
        /\ \A t \in Tasks :
             /\ user'[t] = "callback" => user[t] = "callback"
             /\ user'[t] \in {"opening", "open"} =>
                  /\ user'[t] = user[t]
                  /\ cpu = "exit" \/ \A d \in Files : r \notin UsedBehind(d)
             /\ user'[t] = "orphan" => user[t] \in {"opening", "open", "orphan"}
    BY <2>a DEF Orphaned, HasFile, TypeOK
  <2> HIDE DEF r
  <2>1. TypeOK'
    BY <1>s, <1>r, <2>a, <2>b, <2>d DEF TypeOK, Undoes
  <2>2. Plans'
    BY <1>s, <2>a, <2>b, SamePlan DEF Plans
  <2>3. Standing'
    BY <1>r, <2>a, <2>b DEF Standing
  <2>4. Phases'
    BY <1>s, <2>a DEF Phases
  <2>5. Callbacks'
    BY <2>a, <2>b, <2>c, <2>d DEF Callbacks, Door, ClosedFirst
  <2>6. OpenFiles'
    BY <1>r, <2>a, <2>d DEF OpenFiles, HasFile
  <2> QED  BY <2>1, <2>2, <2>3, <2>4, <2>5, <2>6
<1>8. CASE Waited
  <2>a. /\ waiting # "none" /\ waiting \notin running
        /\ waiting = "irq" => "irq_thread" \notin running
        /\ waiting = "attributes" => \A t \in Tasks : user[t] # "callback"
        /\ waiting' = "none"
        /\ UNCHANGED <<cpu, todo, module, held, user, running, spent>>
    BY <1>8 DEF Waited, inside
  <2>1. TypeOK'
    BY <1>s, <1>r, <2>a DEF TypeOK
  <2>2. Plans'
    BY <1>s, <1>r, <2>a, SamePlan DEF Plans
  <2>3. Standing'
    BY <1>r, <2>a DEF Standing
  <2>4. Phases'
    BY <1>s, <2>a DEF Phases
  <2>5. Callbacks'
    BY <2>a DEF Callbacks, Door
  <2>6. OpenFiles'
    BY <1>r, <2>a DEF OpenFiles, HasFile
  <2> QED  BY <2>1, <2>2, <2>3, <2>4, <2>5, <2>6
<1>9. CASE Released
  <2>a. /\ cpu \in {"undo", "exit", "unbind"} /\ waiting = "none" /\ todo = <<>>
        /\ IF cpu # "exit" /\ lesson \in Drivers THEN
              cpu' = "unbound" /\ module' = "live"
           ELSE
              cpu' = (IF cpu = "undo" THEN "failed" ELSE "unloaded") /\ module' = "gone"
        /\ user' = Orphaned(module' = "gone")
        /\ UNCHANGED <<todo, waiting, held, running, spent>>
    BY <1>9 DEF Released, Releasing
  <2>b. held = {}
    BY <2>a, ReleasedAll DEF Plans
  <2>c. /\ user' \in [Tasks -> {"outside", "opening", "open", "orphan", "callback"}]
        /\ \A t \in Tasks :
             /\ user'[t] = "callback" => user[t] = "callback"
             /\ user'[t] \in {"opening", "open"} =>
                  user'[t] = user[t] /\ (cpu = "exit" \/ module' # "gone")
             /\ user'[t] = "orphan" => user[t] \in {"opening", "open", "orphan"}
    BY <2>a DEF Orphaned, HasFile, TypeOK
  <2>1. TypeOK'
    BY <1>s, <1>r, <2>a, <2>c DEF TypeOK
  <2>2. Plans'
    BY <2>a, <2>b DEF Plans
  <2>3. Standing'
    BY <1>r, <2>a DEF Standing
  <2>4. Phases'
    BY <1>s, <2>a DEF Phases
  <2>5. Callbacks'
    BY <2>a, <2>c DEF Callbacks, Door
  <2>6. OpenFiles'
    <3>1. cpu' = "unloaded" => cpu = "exit"
      BY <2>a DEF Phases
    <3>2. cpu' = "failed" => cpu = "undo" /\ module' = "gone"
      BY <2>a
    <3>3. cpu' # "exit"
      BY <2>a
    <3> QED  BY <1>r, <2>a, <2>c, <3>1, <3>2, <3>3 DEF OpenFiles, HasFile
  <2> QED  BY <2>1, <2>2, <2>3, <2>4, <2>5, <2>6
<1> QED
  BY <1>1, <1>2, <1>3, <1>4, <1>5, <1>6, <1>7, <1>8, <1>9 DEF Loading, Unloading

\* A step of a task or of a callback, while insmod or rmmod stands still.
LEMMA InsideIInv ==
  ASSUME IInv,
         \/ \E t \in Tasks : FindDevice(t) \/ Open(t) \/ CloseFile(t) \/ Callback(t)
                             \/ CallbackEnds(t)
         \/ \E d \in Async : Run(d) \/ Finish(d)
  PROVE  IInv'
<1> USE DEF IInv
<1>s. UNCHANGED <<lesson, cpu, todo, waiting, module, held>>
  BY DEF FindDevice, Open, CloseFile, Callback, CallbackEnds, UserGoes, Run, Finish, loader
<1>r. Resources' = Resources /\ \A r : UsedBehind(r)' = UsedBehind(r) /\ Needs(r)' = Needs(r)
  BY <1>s, SamePlan
<1>1. Plans' /\ Standing' /\ Phases'
  BY <1>s, <1>r, SamePlan DEF Plans, Standing, Phases
<1>2. ASSUME NEW t \in Tasks, NEW to \in {"outside", "opening", "open", "callback"},
             user' = [user EXCEPT ![t] = to], UNCHANGED <<running, spent>>,
             to = "callback" => "attributes" \in held,
             to \in {"opening", "open"} =>
               /\ \A d \in Files : UsedBehind(d) \subseteq held
               /\ cpu \notin {"failed", "exit", "unloaded"}
      PROVE  IInv'
  <2>1. TypeOK'
    BY <1>s, <1>r, <1>2 DEF TypeOK
  <2>2. Callbacks'
    BY <1>s, <1>2 DEF Callbacks, TypeOK
  <2>3. OpenFiles'
    BY <1>s, <1>r, <1>2 DEF OpenFiles, HasFile, TypeOK
  <2> QED  BY <1>1, <2>1, <2>2, <2>3
<1>3. ASSUME NEW t \in Tasks, FindDevice(t) PROVE IInv'
  <2>1. PICK d \in Files : d \in held
    BY <1>3 DEF FindDevice
  <2>2. \A e \in Files : UsedBehind(e) \subseteq held
    <3>1. \A e \in Files : d = e \/ UsedBehind(e) = {}
      BY <2>1, PlansAreSound, LessonAssumption DEF TypeOK, SoundPlan
    <3>2. UsedBehind(d) \subseteq held
      BY <2>1 DEF Standing, Needs
    <3> QED  BY <3>1, <3>2
  <2>3. cpu \notin {"failed", "exit", "unloaded"}
    BY <1>3 DEF FindDevice, Phases
  <2>4. \E to \in {"opening", "open"} : user' = [user EXCEPT ![t] = to]
    BY <1>3 DEF FindDevice, UserGoes
  <2> QED  BY <1>2, <1>3, <2>2, <2>3, <2>4 DEF FindDevice, UserGoes
<1>4. ASSUME NEW t \in Tasks, Open(t) PROVE IInv'
  <2>1. /\ \A d \in Files : UsedBehind(d) \subseteq held
        /\ cpu \notin {"failed", "exit", "unloaded"}
    BY <1>4 DEF Open, UserGoes, OpenFiles, HasFile
  <2> QED  BY <1>2, <1>4, <2>1 DEF Open, UserGoes
<1>5. ASSUME NEW t \in Tasks, CloseFile(t) \/ CallbackEnds(t) PROVE IInv'
  BY <1>2, <1>5 DEF CloseFile, CallbackEnds, UserGoes
<1>6. ASSUME NEW t \in Tasks, Callback(t) PROVE IInv'
  BY <1>2, <1>6 DEF Callback, UserGoes
<1>7. ASSUME NEW d \in Async, Run(d) \/ Finish(d) PROVE IInv'
  <2>1. /\ UNCHANGED user /\ Door(d) \in held \cup {waiting}
        /\ running' \subseteq running \cup {d}
                               \cup (IF d = "irq" THEN {"irq_thread"} ELSE {})
        /\ d \in Resources \cup {"irq_thread"}
        /\ spent' \subseteq spent \cup ({d} \cap OnceOnly \cap Resources)
    <3>1. CASE Run(d)
      <4>1. d # "irq_thread"
        BY <3>1, PlansAreSound, LessonAssumption DEF Run, TypeOK, SoundPlan
      <4> QED  BY <3>1, <4>1 DEF Run, Door, TypeOK
    <3>2. CASE Finish(d)
      BY <3>2 DEF Finish, Woken, Callbacks, TypeOK
    <3> QED  BY <1>7, <3>1, <3>2
  <2>2. running' \subseteq Async \cap (Resources \cup {"irq_thread"})
    BY <2>1 DEF TypeOK, Async
  <2>3. TypeOK'
    BY <1>s, <1>r, <2>1, <2>2 DEF TypeOK
  <2>4. Callbacks'
    BY <1>s, <2>1 DEF Callbacks, Door
  <2>5. OpenFiles'
    BY <1>s, <1>r, <2>1 DEF OpenFiles, HasFile
  <2> QED  BY <1>1, <2>3, <2>4, <2>5
<1> QED  BY <1>3, <1>4, <1>5, <1>6, <1>7

-----------------------------------------------------------------------------
(* Theorems *)

\* In every reachable state what is held fits what is still to do, and those inside
\* fit what is held.
THEOREM Invariance == Spec => []IInv
<1>1. IInv /\ [Next]_vars => IInv'
  BY StutterIInv, LoaderIInv, InsideIInv DEF Next
<1> QED  BY InitIInv, <1>1, PTL DEF Spec

\* The loader, the resources and those inside keep their types; in particular no
\* plan, and no label that a failing init jumps to, releases a resource twice.
THEOREM TypeCorrect == Spec => []TypeOK
<1>1. IInv => TypeOK
  BY DEF IInv
<1> QED  BY Invariance, <1>1, PTL

\* Whoever is inside a module finds its code and all he works with, but for the
\* files that stay open when init fails or a device is unbound.
THEOREM InsideIsSafe == Spec => []NoUseAfterRelease
<1>1. IInv => NoUseAfterRelease
  <2> SUFFICES ASSUME IInv PROVE NoUseAfterRelease
    OBVIOUS
  <2> USE DEF IInv
  \* A door through which somebody has come in keeps what is behind it.
  <2>1. ASSUME NEW r \in held \cup {waiting}, r # "none"
        PROVE  Needs(r) \subseteq held /\ module # "gone"
    BY <2>1 DEF Standing, Plans, Phases, TypeOK
  <2>2. ASSUME NEW d \in running PROVE UsedBehind(d) \subseteq held /\ module # "gone"
    <3>1. Door(d) \in held \cup {waiting} /\ Door(d) # "none"
      BY DEF Callbacks, Door, TypeOK, Async, Works, Tasklets
    <3>2. UsedBehind(d) \subseteq Needs(Door(d))
      BY DEF Needs, Door
    <3> QED  BY <2>1, <3>1, <3>2
  <2>3. ASSUME NEW t \in Tasks, user[t] = "callback"
        PROVE  UsedBehind("attributes") \subseteq held /\ module # "gone"
    <3>1. "attributes" \in held \cup {waiting}
      BY <2>3 DEF Callbacks
    <3> QED  BY <2>1, <3>1 DEF Needs
  <2>4. ASSUME NEW t \in Tasks, user[t] \in {"opening", "open"}
        PROVE  /\ \A d \in Files : UsedBehind(d) \subseteq held
               /\ module \in {"coming", "live"}
    BY <2>4 DEF OpenFiles, HasFile, Phases, TypeOK
  <2>5. ASSUME NEW t \in Tasks, user[t] = "orphan", lesson \in Drivers
        PROVE  module \in {"coming", "live"}
    BY <2>5 DEF OpenFiles, HasFile, Phases, TypeOK
  <2> QED  BY <2>2, <2>3, <2>4, <2>5 DEF NoUseAfterRelease
<1> QED  BY Invariance, <1>1, PTL

\* What is held stands on what is held; what a failed init, an unbinding and exit
\* have still to release is what is held, wherever they are; and at the end of each
\* nothing is held and nothing runs.
THEOREM NothingIsLeft == Spec => []NothingDangles
<1>1. IInv => NothingDangles
  <2> SUFFICES ASSUME IInv PROVE NothingDangles
    OBVIOUS
  <2> USE DEF IInv
  <2>1. \A r \in held : Base(r) \subseteq held
    BY DEF Standing, Needs
  <2>2. ASSUME cpu \in {"failed", "unbound", "unloaded"} PROVE held = {} /\ running = {}
    <3>1. held = {} /\ waiting = "none"
      BY <2>2 DEF Plans
    <3>2. \A d \in running : Door(d) # "none"
      BY DEF TypeOK, Async, Works, Tasklets, Door
    <3> QED  BY <3>1, <3>2 DEF Callbacks
  <2>3. ASSUME cpu \in {"undo", "unbind", "exit"} PROVE Range(todo) = held
    BY <2>3 DEF Plans, Undoes
  <2> QED  BY <2>1, <2>2, <2>3 DEF NothingDangles
<1> QED  BY Invariance, <1>1, PTL
=============================================================================
