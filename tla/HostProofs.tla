----------------------------- MODULE HostProofs -----------------------------
(***************************************************************************)
(* What holds of both host programs, on every path and for every command   *)
(* line: what has been acquired at each point is known exactly, a return   *)
(* path queues exactly that, and in an order in which nothing goes back    *)
(* while something built on it still stands.                               *)
(***************************************************************************)
EXTENDS SimHost, FiniteInduction, TLAPS

-----------------------------------------------------------------------------
(* The inductive invariant.                                                *)

SessionKinds == {"ctx", "handle", "session"}
TemporaryKinds == {"tmpl", "in", "array", "blob", "rsp"}
BufKinds == {"rpc", "fast", "dsp", "node"}

Resource ==
  {Res(kind) : kind \in SessionKinds \union TemporaryKinds}
    \union {Buf(kind, b) : kind \in BufKinds, b \in 1 .. MaxBufs}

DspMappings == {Buf("dsp", b) : b \in 1 .. MaxBufs}

(* r may not be released before s: they are the same, or s is built on r.  *)
Clash(r, s) ==
  \/ r = s
  \/ r[1] = "rpc" /\ s[1] \in {"fast", "dsp"} /\ r[2] = s[2]
  \/ r[1] = "fast" /\ s[1] = "dsp" /\ r[2] = s[2]
  \/ r[1] = "rpc" /\ s = Res("handle") /\ InSim
  \/ r = Res("session") /\ s[1] = "dsp"
  \/ r = Res("handle") /\ (s = Res("session") \/ s[1] = "dsp")
  \/ r = Res("ctx") /\ s = Res("handle")

InOrder(s) == \A p, q \in DOMAIN s : p < q => ~Clash(s[p], s[q])

(* Places of hexlib_run from which it still goes on.                       *)
RunPlaces == {"template", "open", "input", "alloc", "stage", "build",
              "response", "invoke", "judge"}
(* ... of which these have the session and all of the buffers.             *)
AllHeld == {"build", "response", "invoke", "judge"}

HoldsSession(kind) ==
  /\ at # "template"
  /\ at = "open" => k > (CASE kind = "ctx" -> 5 [] kind = "handle" -> 6
                           [] kind = "session" -> 7)

(* Steps of hexlib_alloc after which buffer i has the resource.            *)
AllocPlace(kind) ==
  IF run.mode = "unmapped"
  THEN CASE kind = "rpc" -> 1 [] kind = "fast" -> 3 [] kind = "node" -> 4
         [] kind = "dsp" -> 9
  ELSE CASE kind = "rpc" -> 2 [] kind = "fast" -> 4 [] kind = "dsp" -> 5
         [] kind = "node" -> 6

HasWhole(b) ==
  \/ at = "alloc" /\ b < i
  \/ at = "stage" /\ b <= i
  \/ at \in AllHeld /\ b <= NBufs

HoldsBuf(kind, b) ==
  \/ HasWhole(b) /\ (kind = "dsp" => ~SkipsRegister)
  \/ at = "alloc" /\ b = i /\ k > AllocPlace(kind)

(* Up to its return, hexlib_run holds exactly what the place says, apart   *)
(* from temporaries.                                                       *)
LedgerExact ==
  at \in RunPlaces =>
    /\ \A kind \in SessionKinds : Res(kind) \in ledger <=> HoldsSession(kind)
    /\ \A kind \in BufKinds, b \in 1 .. MaxBufs :
         Buf(kind, b) \in ledger <=> HoldsBuf(kind, b)
    /\ at = "template" => ledger = {}
    /\ at \in {"open", "input"} => ledger \intersect {Res(t) : t \in TemporaryKinds} \subseteq {Res("tmpl")}
    /\ at = "open" /\ run.mode # "batch" => Res("tmpl") \notin ledger

(* The simulator's host, and where its unwinding forgets the session.      *)
SimLedgerExact ==
  at \in {"sim", "report"} =>
    ledger = (IF at = "report" \/ k > 1 THEN {Res("handle")} ELSE {})
      \union (IF at = "report" \/ k > 2 THEN {Res("session")} ELSE {})
      \union (IF at = "report" \/ k > 5 THEN {Buf("rpc", 1)} ELSE {})
      \union (IF (at = "report" \/ k > 7) /\ ~SkipsRegister THEN {Buf("dsp", 1)} ELSE {})

(* A return path gives back what is held, all of it, and in order; the     *)
(* simulator's leaves its mapping to the close.                            *)
QueueExact ==
  /\ todo \in Seq(Resource)
  /\ InOrder(todo)
  /\ ToSet(todo) \subseteq ledger
  /\ at # "done" => todo = << >> \/ (at = "response" /\ todo = <<Res("in")>>)
  /\ exit = Killed => todo = << >>
  /\ at = "done" /\ exit # Killed /\ ~InSim => ToSet(todo) = ledger
  /\ at = "done" /\ InSim =>
       /\ Res("ctx") \notin ledger
       /\ \A b \in 1 .. MaxBufs : Buf("fast", b) \notin ledger
       /\ ToSet(todo) \intersect DspMappings = {}
       /\ DspMappings \intersect ledger # {} => Res("handle") \in ToSet(todo)
       /\ exit \notin 3 .. 8 => ledger \subseteq ToSet(todo) \union DspMappings

PlaceOK ==
  /\ run \in CommandLines
  /\ at \in RunPlaces \union {"sim", "report", "done"}
  /\ at \in RunPlaces => ~InSim /\ exit = Running
  /\ at \in {"sim", "report"} => InSim /\ exit = Running
  /\ at \in {"template", "input", "stage"} => run.mode = "batch"
  /\ at = "open" /\ run.mode = "usage" => k = 1
  /\ at = "alloc" => k \in 1 .. (IF run.mode = "unmapped" THEN 4 ELSE 6)
  /\ at = "sim" => k \in 1 .. 8
  /\ at \in {"alloc", "stage"} => i \in 1 .. NBufs
  /\ k \in 1 .. 9 /\ i \in 1 .. MaxBufs
  /\ ledger \subseteq Resource

HeldInv == PlaceOK /\ LedgerExact /\ SimLedgerExact /\ QueueExact

-----------------------------------------------------------------------------
(* Sequences of releases.                                                  *)

(* s releases exactly R, in an order that respects what is built on what.  *)
Cleans(s, R) == s \in Seq(Resource) /\ InOrder(s) /\ ToSet(s) = R

LEMMA CleansNothing == Cleans(<< >>, {})
<1>1. << >> \in Seq(Resource)  OBVIOUS
<1> QED  BY <1>1 DEF Cleans, InOrder, ToSet

LEMMA CleansOne ==
  ASSUME NEW r \in Resource
  PROVE  Cleans(<<r>>, {r})
<1>1. <<r>> \in Seq(Resource) /\ DOMAIN <<r>> = {1} /\ <<r>>[1] = r  OBVIOUS
<1> QED  BY <1>1 DEF Cleans, InOrder, ToSet

(* Two stretches of releases make one, when nothing of the second had to   *)
(* come before something of the first.                                     *)
LEMMA CleansBoth ==
  ASSUME NEW s, NEW R, NEW t, NEW Q, Cleans(s, R), Cleans(t, Q),
         \A x \in R, y \in Q : ~Clash(x, y)
  PROVE  Cleans(s \o t, R \union Q)
<1> DEFINE u == s \o t
<1>1. s \in Seq(Resource) /\ t \in Seq(Resource)  BY DEF Cleans
<1>2. u \in Seq(Resource) /\ Len(u) = Len(s) + Len(t)  BY <1>1
<1>3. /\ \A p \in 1 .. Len(s) : u[p] = s[p]
      /\ \A p \in Len(s) + 1 .. Len(u) : u[p] = t[p - Len(s)] /\ p - Len(s) \in 1 .. Len(t)
  BY <1>1
<1>4. DOMAIN u = 1 .. Len(u) /\ DOMAIN s = 1 .. Len(s) /\ DOMAIN t = 1 .. Len(t)
      /\ Len(s) \in Nat /\ Len(t) \in Nat
  BY <1>1, <1>2
<1> HIDE DEF u
<1>5. ToSet(u) = R \union Q
  <2>1. ASSUME NEW p \in DOMAIN u PROVE u[p] \in ToSet(s) \union ToSet(t)
    <3>1. \/ p \in DOMAIN s /\ u[p] = s[p]
          \/ p - Len(s) \in DOMAIN t /\ u[p] = t[p - Len(s)]
      BY <1>2, <1>3, <1>4
    <3> QED  BY <3>1 DEF ToSet
  <2>2. \A p \in DOMAIN s : p \in DOMAIN u /\ u[p] = s[p]
    BY <1>2, <1>3, <1>4
  <2>3. \A p \in DOMAIN t : Len(s) + p \in DOMAIN u /\ u[Len(s) + p] = t[p]
    BY <1>2, <1>3, <1>4
  <2> QED  BY <2>1, <2>2, <2>3 DEF ToSet, Cleans
<1>6. ASSUME NEW p \in DOMAIN u, NEW q \in DOMAIN u, p < q
      PROVE  ~Clash(u[p], u[q])
  <2>1. CASE q \in DOMAIN s
    <3>1. p \in DOMAIN s /\ u[p] = s[p] /\ u[q] = s[q]  BY <1>3, <1>4, <1>6, <2>1
    <3> QED  BY <1>6, <2>1, <3>1 DEF Cleans, InOrder
  <2>2. CASE p \in DOMAIN s /\ q \notin DOMAIN s
    <3>1. u[p] = s[p] /\ u[q] = t[q - Len(s)] /\ q - Len(s) \in DOMAIN t
      BY <1>2, <1>3, <1>4, <2>2
    <3> QED  BY <2>2, <3>1 DEF Cleans, ToSet
  <2>3. CASE p \notin DOMAIN s /\ q \notin DOMAIN s
    <3>1. /\ u[p] = t[p - Len(s)] /\ p - Len(s) \in DOMAIN t
          /\ u[q] = t[q - Len(s)] /\ q - Len(s) \in DOMAIN t
          /\ p - Len(s) < q - Len(s)
      BY <1>2, <1>3, <1>4, <1>6, <2>3
    <3> QED  BY <3>1 DEF Cleans, InOrder
  <2> QED  BY <1>4, <1>6, <2>1, <2>2, <2>3
<1>7. InOrder(u)  BY <1>6 DEF InOrder
<1> QED  BY <1>2, <1>5, <1>7 DEF Cleans, u

(* Releasing the first of a stretch.                                       *)
LEMMA CleansTail ==
  ASSUME NEW s, NEW R, Cleans(s, R), s # << >>
  PROVE  /\ Head(s) \in R
         /\ Cleans(Tail(s), R \ {Head(s)})
         /\ \A r \in R \ {Head(s)} : ~Clash(Head(s), r)
<1>1. s \in Seq(Resource) /\ Len(s) \in Nat \ {0} /\ DOMAIN s = 1 .. Len(s)
  BY DEF Cleans
<1>2. Head(s) = s[1] /\ 1 \in DOMAIN s  BY <1>1
<1>3. /\ Tail(s) \in Seq(Resource) /\ Len(Tail(s)) = Len(s) - 1
      /\ DOMAIN Tail(s) = 1 .. Len(s) - 1
      /\ \A p \in DOMAIN Tail(s) : Tail(s)[p] = s[p + 1] /\ p + 1 \in DOMAIN s
  BY <1>1
<1>4. \A p \in DOMAIN s : p # 1 => p - 1 \in DOMAIN Tail(s) /\ Tail(s)[p - 1] = s[p]
  BY <1>1, <1>3
<1>5. \A p \in DOMAIN s : p # 1 => ~Clash(s[1], s[p]) /\ s[p] # s[1]
  BY <1>1, <1>2 DEF Cleans, InOrder, Clash
<1>6. InOrder(Tail(s))
  <2> SUFFICES ASSUME NEW p \in DOMAIN Tail(s), NEW q \in DOMAIN Tail(s), p < q
               PROVE  ~Clash(Tail(s)[p], Tail(s)[q])
    BY DEF InOrder
  <2>1. p + 1 < q + 1  BY <1>1, <1>3
  <2> QED  BY <1>3, <2>1 DEF Cleans, InOrder
<1>7. ToSet(Tail(s)) = R \ {Head(s)}
  <2>1. \A p \in DOMAIN Tail(s) : Tail(s)[p] \in R \ {Head(s)}
    <3>1. \A p \in DOMAIN Tail(s) : p + 1 # 1  BY <1>1, <1>3
    <3> QED  BY <1>2, <1>3, <1>5, <3>1 DEF Cleans, ToSet
  <2>2. \A r \in R \ {Head(s)} : \E p \in DOMAIN Tail(s) : Tail(s)[p] = r
    BY <1>2, <1>4 DEF Cleans, ToSet
  <2> QED  BY <2>1, <2>2 DEF ToSet
<1>8. \A r \in R \ {Head(s)} : ~Clash(Head(s), r)
  BY <1>2, <1>5 DEF Cleans, ToSet
<1> QED  BY <1>2, <1>3, <1>6, <1>7, <1>8 DEF Cleans, ToSet

-----------------------------------------------------------------------------
(* What FlattenSeq computes: the library defines it by a recursion that    *)
(* has a solution, one prefix after the other.                             *)
LEMMA FlattenSteps ==
  ASSUME NEW n \in Nat \ {0}, NEW ss \in [1 .. n -> Seq(Resource)]
  PROVE  \E f : /\ f[1] = ss[1]
                /\ \A j \in 2 .. n : f[j] = f[j - 1] \o ss[j]
                /\ FlattenSeq(ss) = f[n]
<1> DEFINE Step(f, j) == IF j = 1 THEN ss[j] ELSE f[j - 1] \o ss[j]
           Chain(f, m) == f = [j \in 1 .. m |-> Step(f, j)]
           HasChain(m) == \E f : Chain(f, m)
           A == {m \in Nat : HasChain(m)}
<1>1. HasChain(0)
  <2> DEFINE g == [j \in 1 .. 0 |-> ss[j]]
  <2>1. Chain(g, 0)  OBVIOUS
  <2> QED  BY <2>1
<1>2. ASSUME NEW m \in Nat, HasChain(m) PROVE HasChain(m + 1)
  <2>1. PICK f : Chain(f, m)  BY <1>2
  <2> DEFINE g == [j \in 1 .. m + 1 |-> Step(f, j)]
  <2>2. \A j \in 1 .. m : f[j] = Step(f, j)  BY <2>1
  <2>3. \A j \in 1 .. m : g[j] = f[j]  BY <2>2
  <2>4. \A j \in 1 .. m + 1 : j # 1 => j - 1 \in 1 .. m  OBVIOUS
  <2>5. \A j \in 1 .. m + 1 : Step(g, j) = Step(f, j)
    <3> HIDE DEF g
    <3> QED  BY <2>3, <2>4
  <2>6. Chain(g, m + 1)
    <3> HIDE DEF Step
    <3> QED  BY <2>5
  <2> HIDE DEF g, Chain
  <2> QED  BY <2>6
<1>3. HasChain(n)
  <2> HIDE DEF HasChain
  <2>1. 0 \in A /\ \A m \in Nat : m \in A => m + 1 \in A  BY <1>1, <1>2
  <2>2. Nat \subseteq A
    <3> HIDE DEF A
    <3> QED  BY <2>1, NatSetInduction
  <2> QED  BY <2>2
<1>4. Len(ss) = n  OBVIOUS
<1> DEFINE F == CHOOSE f : f = [j \in 1 .. Len(ss) |-> Step(f, j)]
<1>5. Chain(F, n)  BY <1>3, <1>4
<1>6. FlattenSeq(ss) = F[n]  BY <1>4 DEF FlattenSeq
<1> HIDE DEF F
<1>7. \A j \in 1 .. n : F[j] = Step(F, j)  BY <1>5
<1>8. F[1] = ss[1]  BY <1>7
<1>9. \A j \in 2 .. n : F[j] = F[j - 1] \o ss[j]
  <2>1. \A j \in 2 .. n : j \in 1 .. n /\ j # 1  OBVIOUS
  <2> QED  BY <1>7, <2>1
<1> QED  BY <1>6, <1>8, <1>9

LEMMA CleansFlatten ==
  ASSUME NEW n \in Nat, NEW ss \in [1 .. n -> Seq(Resource)], NEW RR,
         \A j \in 1 .. n : Cleans(ss[j], RR[j]),
         \A j, m \in 1 .. n : j < m => \A x \in RR[j], y \in RR[m] : ~Clash(x, y)
  PROVE  Cleans(FlattenSeq(ss), UNION {RR[j] : j \in 1 .. n})
<1>1. CASE n = 0
  <2>1. ss = << >> /\ Len(ss) = 0  BY <1>1
  <2>2. UNION {RR[j] : j \in 1 .. n} = {}  BY <1>1
  <2> QED  BY <2>1, <2>2, CleansNothing DEF FlattenSeq
<1>2. CASE n # 0
  <2>1. PICK f : /\ f[1] = ss[1]
                 /\ \A j \in 2 .. n : f[j] = f[j - 1] \o ss[j]
                 /\ FlattenSeq(ss) = f[n]
    BY <1>2, FlattenSteps
  <2> DEFINE Prefix(m) == UNION {RR[j] : j \in 1 .. m}
             Right(m) == m + 1 \in 1 .. n => Cleans(f[m + 1], Prefix(m + 1))
             A == {m \in Nat : Right(m)}
  <2>2. Right(0)
    <3>1. Prefix(1) = RR[1] /\ 0 + 1 = 1 /\ 1 \in 1 .. n  BY <1>2
    <3> HIDE DEF Prefix
    <3> QED  BY <2>1, <3>1
  <2>3. ASSUME NEW m \in Nat, Right(m) PROVE Right(m + 1)
    <3> SUFFICES ASSUME m + 2 \in 1 .. n PROVE Cleans(f[m + 2], Prefix(m + 2))
      <4>1. (m + 1) + 1 = m + 2  OBVIOUS
      <4> HIDE DEF Prefix
      <4> QED  BY <4>1
    <3>1. Cleans(f[m + 1], Prefix(m + 1)) /\ Cleans(ss[m + 2], RR[m + 2])
      BY <2>3
    <3>2. \A x \in Prefix(m + 1), y \in RR[m + 2] : ~Clash(x, y)
      <4>1. \A j \in 1 .. m + 1 : j \in 1 .. n /\ j < m + 2  OBVIOUS
      <4> QED  BY <4>1
    <3>3. f[m + 2] = f[m + 1] \o ss[m + 2]
      <4>1. m + 2 \in 2 .. n /\ (m + 2) - 1 = m + 1  OBVIOUS
      <4> QED  BY <2>1, <4>1
    <3>4. Prefix(m + 2) = Prefix(m + 1) \union RR[m + 2]
      <4>1. 1 .. m + 2 = (1 .. m + 1) \union {m + 2}  OBVIOUS
      <4> QED  BY <4>1
    <3> HIDE DEF Prefix
    <3> QED  BY <3>1, <3>2, <3>3, <3>4, CleansBoth
  <2>4. Right(n - 1)
    <3> HIDE DEF Right
    <3>1. 0 \in A /\ \A m \in Nat : m \in A => m + 1 \in A  BY <2>2, <2>3
    <3>2. Nat \subseteq A
      <4> HIDE DEF A
      <4> QED  BY <3>1, NatSetInduction
    <3> QED  BY <1>2, <3>2
  <2>5. (n - 1) + 1 = n /\ n \in 1 .. n  BY <1>2
  <2> HIDE DEF Prefix
  <2>6. Cleans(f[n], Prefix(n))  BY <2>4, <2>5
  <2> QED  BY <2>1, <2>6 DEF Prefix
<1> QED  BY <1>1, <1>2

-----------------------------------------------------------------------------
(* What the return paths queue.                                            *)

Temporary(kind) == {Res(kind)} \intersect ledger
SessionOnes == {Res(kind) : kind \in SessionKinds}
KindsOfBuffer == IF SkipsRegister THEN BufKinds \ {"dsp"} ELSE BufKinds
BufferOnes(b) == {Buf(kind, b) : kind \in KindsOfBuffer}
FreedBy(b) == IF Buf("node", b) \in ledger THEN BufferOnes(b) ELSE {}

(* Temporaries may go at any point.                                        *)
LEMMA TemporariesFree ==
  ASSUME NEW kind \in TemporaryKinds, NEW x \in Resource, x # Res(kind)
  PROVE  ~Clash(Res(kind), x) /\ ~Clash(x, Res(kind))
BY DEF TemporaryKinds, SessionKinds, BufKinds, Resource, Clash, Res, Buf

(* A buffer's resources do not wait for another buffer's ...               *)
LEMMA BuffersApart ==
  ASSUME NEW b \in 1 .. MaxBufs, NEW c \in 1 .. MaxBufs, b # c,
         NEW x \in BufKinds, NEW y \in BufKinds
  PROVE  ~Clash(Buf(x, b), Buf(y, c))
BY DEF BufKinds, Clash, Res, Buf

(* ... nor, in hexlib_run, for the session to end.                         *)
LEMMA BuffersBeforeSession ==
  ASSUME ~InSim, NEW b \in 1 .. MaxBufs, NEW x \in BufKinds, NEW y \in SessionKinds
  PROVE  ~Clash(Buf(x, b), Res(y))
BY DEF BufKinds, SessionKinds, Clash, Res, Buf

LEMMA ResourceKinds ==
  /\ \A kind \in SessionKinds \union TemporaryKinds : Res(kind) \in Resource
  /\ \A kind \in BufKinds, b \in 1 .. MaxBufs : Buf(kind, b) \in Resource
BY DEF Resource

LEMMA FreeCleans ==
  ASSUME NEW kind \in TemporaryKinds
  PROVE  Cleans(Free(kind), Temporary(kind))
<1>1. CASE Res(kind) \in ledger
  BY <1>1, CleansOne, ResourceKinds DEF Free, Temporary
<1>2. CASE Res(kind) \notin ledger
  BY <1>2, CleansNothing DEF Free, Temporary
<1> QED  BY <1>1, <1>2

LEMMA CleansPair ==
  ASSUME NEW x \in Resource, NEW y \in Resource, ~Clash(x, y)
  PROVE  Cleans(<<x, y>>, {x, y})
<1>1. /\ <<x, y>> \in Seq(Resource) /\ DOMAIN <<x, y>> = {1, 2}
      /\ <<x, y>>[1] = x /\ <<x, y>>[2] = y
  OBVIOUS
<1> QED  BY <1>1 DEF Cleans, InOrder, ToSet

LEMMA CleansTriple ==
  ASSUME NEW x \in Resource, NEW y \in Resource, NEW z \in Resource,
         ~Clash(x, y), ~Clash(x, z), ~Clash(y, z)
  PROVE  Cleans(<<x, y, z>>, {x, y, z})
<1>1. /\ <<x, y, z>> \in Seq(Resource) /\ DOMAIN <<x, y, z>> = {1, 2, 3}
      /\ <<x, y, z>>[1] = x /\ <<x, y, z>>[2] = y /\ <<x, y, z>>[3] = z
  OBVIOUS
<1> QED  BY <1>1 DEF Cleans, InOrder, ToSet

LEMMA CloseCleans == Cleans(CloseCalls, SessionOnes)
<1>1. /\ Res("session") \in Resource /\ Res("handle") \in Resource /\ Res("ctx") \in Resource
  BY ResourceKinds DEF SessionKinds
<1>2. /\ ~Clash(Res("session"), Res("handle")) /\ ~Clash(Res("session"), Res("ctx"))
      /\ ~Clash(Res("handle"), Res("ctx"))
  BY DEF Clash, Res
<1>3. SessionOnes = {Res("session"), Res("handle"), Res("ctx")}
  BY DEF SessionOnes, SessionKinds
<1> QED  BY <1>1, <1>2, <1>3, CleansTriple DEF CloseCalls

(* The unregistering, if it is due, then what it was built on.             *)
LEMMA RegisteredThen ==
  ASSUME NEW b \in 1 .. MaxBufs, NEW s, NEW R \in SUBSET {Buf(kind, b) : kind \in BufKinds \ {"dsp"}},
         Cleans(s, R)
  PROVE  Cleans(Registered(b) \o s,
                R \union IF SkipsRegister THEN {} ELSE {Buf("dsp", b)})
<1>1. CASE SkipsRegister
  <2>1. << >> \o s = s  BY DEF Cleans
  <2> QED  BY <1>1, <2>1 DEF Registered
<1>2. CASE ~SkipsRegister
  <2>1. Cleans(<<Buf("dsp", b)>>, {Buf("dsp", b)})
    BY CleansOne, ResourceKinds DEF BufKinds
  <2>2. \A y \in R : ~Clash(Buf("dsp", b), y)  BY DEF BufKinds, Clash, Buf, Res
  <2>3. Cleans(<<Buf("dsp", b)>> \o s, {Buf("dsp", b)} \union R)
    BY <2>1, <2>2, CleansBoth
  <2>4. {Buf("dsp", b)} \union R = R \union {Buf("dsp", b)}  OBVIOUS
  <2> QED  BY <1>2, <2>3, <2>4 DEF Registered
<1> QED  BY <1>1, <1>2

LEMMA FreeCallsCleans ==
  ASSUME NEW b \in 1 .. MaxBufs
  PROVE  Cleans(FreeCalls(b), BufferOnes(b))
<1>1. /\ Buf("fast", b) \in Resource /\ Buf("rpc", b) \in Resource /\ Buf("node", b) \in Resource
  BY ResourceKinds DEF BufKinds
<1>2. /\ ~Clash(Buf("fast", b), Buf("rpc", b)) /\ ~Clash(Buf("fast", b), Buf("node", b))
      /\ ~Clash(Buf("rpc", b), Buf("node", b))
  BY DEF Clash, Res, Buf
<1> DEFINE R == {Buf("fast", b), Buf("rpc", b), Buf("node", b)}
<1>3. Cleans(<<Buf("fast", b), Buf("rpc", b), Buf("node", b)>>, R)
  BY <1>1, <1>2, CleansTriple
<1>4. R \in SUBSET {Buf(kind, b) : kind \in BufKinds \ {"dsp"}}  BY DEF BufKinds
<1>5. R \union (IF SkipsRegister THEN {} ELSE {Buf("dsp", b)}) = BufferOnes(b)
  BY DEF BufferOnes, KindsOfBuffer, BufKinds
<1> HIDE DEF R
<1> QED  BY <1>3, <1>4, <1>5, RegisteredThen DEF FreeCalls

(* Every buffer whose pointer is set, each in its order.                   *)
LEMMA FreeAllCleans ==
  ASSUME NBufs \in Nat, NBufs <= MaxBufs, MaxBufs \in Nat
  PROVE  Cleans(FreeAll, UNION {FreedBy(b) : b \in 1 .. NBufs})
<1> DEFINE n == NBufs
           ss == [b \in 1 .. n |-> IF Buf("node", b) \in ledger THEN FreeCalls(b) ELSE << >>]
           RR == [b \in 1 .. n |-> FreedBy(b)]
<1>1. \A b \in 1 .. n : b \in 1 .. MaxBufs  OBVIOUS
<1>2. \A b \in 1 .. n : Cleans(ss[b], RR[b])
  BY <1>1, FreeCallsCleans, CleansNothing DEF FreedBy
<1>3. ss \in [1 .. n -> Seq(Resource)]  BY <1>2 DEF Cleans
<1>4. \A b, c \in 1 .. n : b < c => \A x \in RR[b], y \in RR[c] : ~Clash(x, y)
  <2> SUFFICES ASSUME NEW b \in 1 .. n, NEW c \in 1 .. n, b < c,
                      NEW x \in FreedBy(b), NEW y \in FreedBy(c)
               PROVE  ~Clash(x, y)
    OBVIOUS
  <2>1. PICK xk \in BufKinds : x = Buf(xk, b)
    BY DEF FreedBy, BufferOnes, KindsOfBuffer
  <2>2. PICK yk \in BufKinds : y = Buf(yk, c)
    BY DEF FreedBy, BufferOnes, KindsOfBuffer
  <2>3. b # c  OBVIOUS
  <2> QED  BY <1>1, <2>1, <2>2, <2>3, BuffersApart
<1>5. FreeAll = FlattenSeq(ss)  BY DEF FreeAll
<1>6. UNION {RR[b] : b \in 1 .. n} = UNION {FreedBy(b) : b \in 1 .. NBufs}  OBVIOUS
<1>7. n \in Nat  OBVIOUS
<1> HIDE DEF n, ss, RR
<1>8. Cleans(FlattenSeq(ss), UNION {RR[b] : b \in 1 .. n})
  BY <1>2, <1>3, <1>4, <1>7, CleansFlatten
<1> QED  BY <1>5, <1>6, <1>8

(* Putting one more stretch behind what has been queued.                   *)
LEMMA ThenTemporary ==
  ASSUME NEW s, NEW R, Cleans(s, R), R \subseteq Resource,
         NEW kind \in TemporaryKinds, Res(kind) \notin R
  PROVE  /\ Cleans(s \o Free(kind), R \union Temporary(kind))
         /\ R \union Temporary(kind) \subseteq Resource
<1>1. \A x \in R, y \in Temporary(kind) : ~Clash(x, y)
  BY TemporariesFree DEF Temporary
<1>2. Temporary(kind) \subseteq Resource  BY ResourceKinds DEF Temporary
<1> QED  BY <1>1, <1>2, FreeCleans, CleansBoth

LEMMA KindsApart ==
  /\ \A x, y : x # y => Res(x) # Res(y)
  /\ \A x \in SessionKinds \union TemporaryKinds, y \in BufKinds, b \in 1 .. MaxBufs :
       Res(x) # Buf(y, b)
  /\ \A x, y \in BufKinds, b, c \in 1 .. MaxBufs : Buf(x, b) = Buf(y, c) => x = y /\ b = c
BY DEF Res, Buf, SessionKinds, TemporaryKinds, BufKinds

BuffersFreed == UNION {FreedBy(b) : b \in 1 .. NBufs}
TemporariesHeld == UNION {Temporary(kind) : kind \in TemporaryKinds}

(* hexlib_run's clean-up releases what first does, the temporaries there   *)
(* are, the buffers whose pointer is set, and the session.                 *)
CleanUpQueue(first) ==
  first \o Free("in") \o Free("rsp") \o Free("blob") \o FreeAll
    \o Free("array") \o Free("tmpl") \o CloseCalls

LEMMA CleanUpCleans ==
  ASSUME ~InSim, NBufs \in Nat, NBufs <= MaxBufs, MaxBufs \in Nat,
         NEW first, NEW R, Cleans(first, R), NEW c \in 1 .. MaxBufs,
         R \subseteq {Buf(kind, c) : kind \in BufKinds},
         R = {} \/ Buf("node", c) \notin ledger
  PROVE  Cleans(CleanUpQueue(first),
                R \union BuffersFreed \union TemporariesHeld \union SessionOnes)
<1> DEFINE s1 == first \o Free("in")
           s2 == s1 \o Free("rsp")
           s3 == s2 \o Free("blob")
           s4 == s3 \o FreeAll
           s5 == s4 \o Free("array")
           s6 == s5 \o Free("tmpl")
           s7 == s6 \o CloseCalls
           R1 == R \union Temporary("in")
           R2 == R1 \union Temporary("rsp")
           R3 == R2 \union Temporary("blob")
           R4 == R3 \union BuffersFreed
           R5 == R4 \union Temporary("array")
           R6 == R5 \union Temporary("tmpl")
           R7 == R6 \union SessionOnes
           Buffers == {Buf(kind, b) : kind \in BufKinds, b \in 1 .. MaxBufs}
<1>0. \A x, y \in TemporaryKinds : Res(x) \in Temporary(y) => x = y
  BY KindsApart DEF Temporary
<1>1. R \subseteq Buffers /\ BuffersFreed \subseteq Buffers
  <2>1. \A b \in 1 .. NBufs : b \in 1 .. MaxBufs  OBVIOUS
  <2>2. \A b \in 1 .. NBufs : FreedBy(b) \subseteq Buffers
    BY <2>1 DEF FreedBy, BufferOnes, KindsOfBuffer
  <2> QED  BY <2>2 DEF BuffersFreed
<1>2. Buffers \subseteq Resource /\ \A x \in TemporaryKinds : Res(x) \notin Buffers
  BY ResourceKinds, KindsApart
<1> HIDE DEF Buffers
<1>3. Cleans(s1, R1) /\ R1 \subseteq Resource
  BY <1>1, <1>2, ThenTemporary DEF TemporaryKinds
<1>4. Cleans(s2, R2) /\ R2 \subseteq Resource
  <2>1. Res("rsp") \notin R1  BY <1>0, <1>1, <1>2 DEF TemporaryKinds
  <2> HIDE DEF s1, R1
  <2> QED  BY <1>3, <2>1, ThenTemporary DEF TemporaryKinds
<1>5. Cleans(s3, R3) /\ R3 \subseteq Resource
  <2>1. Res("blob") \notin R2  BY <1>0, <1>1, <1>2 DEF TemporaryKinds
  <2> HIDE DEF s2, R2
  <2> QED  BY <1>4, <2>1, ThenTemporary DEF TemporaryKinds
<1>6. Cleans(s4, R4) /\ R4 \subseteq Resource
  <2>1. ASSUME NEW x \in R3, NEW y \in BuffersFreed PROVE ~Clash(x, y)
    <3>1. PICK b \in 1 .. NBufs : y \in BufferOnes(b) /\ Buf("node", b) \in ledger
      BY <2>1 DEF BuffersFreed, FreedBy
    <3>2. PICK yk \in BufKinds : y = Buf(yk, b)
      BY <3>1 DEF BufferOnes, KindsOfBuffer
    <3>3. b \in 1 .. MaxBufs  OBVIOUS
    <3>4. CASE x \in R
      <4>1. PICK xk \in BufKinds : x = Buf(xk, c)  BY <3>4
      <4>2. b # c  BY <3>1, <3>4
      <4> QED  BY <3>2, <3>3, <4>1, <4>2, BuffersApart
    <3>5. CASE \E t \in TemporaryKinds : x = Res(t)
      <4>1. PICK t \in TemporaryKinds : x = Res(t)  BY <3>5
      <4>2. y \in Resource /\ y # Res(t)  BY <1>1, <1>2
      <4> QED  BY <4>1, <4>2, TemporariesFree
    <3> QED  BY <3>4, <3>5 DEF Temporary, TemporaryKinds
  <2>2. Cleans(FreeAll, BuffersFreed)  BY FreeAllCleans DEF BuffersFreed
  <2> HIDE DEF s3, R3
  <2> QED  BY <1>1, <1>2, <1>5, <2>1, <2>2, CleansBoth
<1>7. Cleans(s5, R5) /\ R5 \subseteq Resource
  <2>1. Res("array") \notin R4  BY <1>0, <1>1, <1>2 DEF TemporaryKinds
  <2> HIDE DEF s4, R4
  <2> QED  BY <1>6, <2>1, ThenTemporary DEF TemporaryKinds
<1>8. Cleans(s6, R6) /\ R6 \subseteq Resource
  <2>1. Res("tmpl") \notin R5  BY <1>0, <1>1, <1>2 DEF TemporaryKinds
  <2> HIDE DEF s5, R5
  <2> QED  BY <1>7, <2>1, ThenTemporary DEF TemporaryKinds
<1>9. Cleans(s7, R7)
  <2>1. ASSUME NEW x \in R6, NEW y \in SessionOnes PROVE ~Clash(x, y)
    <3>1. PICK yk \in SessionKinds : y = Res(yk)  BY DEF SessionOnes
    <3>2. CASE x \in Buffers
      <4>1. PICK xk \in BufKinds, b \in 1 .. MaxBufs : x = Buf(xk, b)
        BY <3>2 DEF Buffers
      <4> QED  BY <3>1, <4>1, BuffersBeforeSession
    <3>3. CASE \E t \in TemporaryKinds : x = Res(t)
      <4>1. PICK t \in TemporaryKinds : x = Res(t)  BY <3>3
      <4>2. y \in Resource /\ y # Res(t)
        BY <3>1, ResourceKinds, KindsApart DEF SessionKinds, TemporaryKinds
      <4> QED  BY <4>1, <4>2, TemporariesFree
    <3> QED  BY <1>1, <3>2, <3>3 DEF Temporary, TemporaryKinds
  <2> HIDE DEF s6, R6
  <2> QED  BY <1>8, <2>1, CloseCleans, CleansBoth
<1>10. R7 = R \union BuffersFreed \union TemporariesHeld \union SessionOnes
  BY DEF TemporariesHeld, TemporaryKinds
<1>11. s7 = CleanUpQueue(first)  BY DEF CleanUpQueue
<1> HIDE DEF s7, R7
<1> QED  BY <1>9, <1>10, <1>11

-----------------------------------------------------------------------------
(* The tables of steps, entry by entry.                                    *)

LEMMA CommandLineTypes ==
  ASSUME run \in CommandLines
  PROVE  /\ run \in CommandLine
         /\ run.mode \in Modes
         /\ Len(run.sizes) \in 1 .. MaxBufs /\ MaxBufs \in Nat
         /\ NBufs \in 1 .. MaxBufs /\ 1 \in 1 .. MaxBufs
<1>1. /\ run \in CommandLine /\ Len(run.sizes) \in 1 .. MaxBufs
      /\ MaxBufs \in Nat \ {0, 1}
  BY HostAssumption
<1>2. run.mode \in Modes  BY <1>1 DEF CommandLine
<1>3. 1 \in 1 .. MaxBufs /\ 2 \in 1 .. MaxBufs  BY <1>1
<1>4. NBufs \in 1 .. MaxBufs
  <2>1. NBufs \in {Len(run.sizes), 1, 2}  BY DEF NBufs
  <2> QED  BY <1>1, <1>3, <2>1
<1> QED  BY <1>1, <1>2, <1>3, <1>4

LEMMA OpenTable ==
  /\ Len(OpenSteps) = 9
  /\ OpenSteps[1] = "driver" /\ OpenSteps[2] = "caps" /\ OpenSteps[3] = "pd"
  /\ OpenSteps[4] = "unsigned" /\ OpenSteps[5] = "ctx" /\ OpenSteps[6] = "handle"
  /\ OpenSteps[7] = "session" /\ OpenSteps[8] = "hwinfo" /\ OpenSteps[9] = "arch"
BY DEF OpenSteps

LEMMA SimTable ==
  /\ Len(SimSteps) = 8
  /\ SimSteps[1] = "handle" /\ SimSteps[2] = "session" /\ SimSteps[3] = "hwinfo"
  /\ SimSteps[4] = "blob" /\ SimSteps[5] = "rpc" /\ SimSteps[6] = "input"
  /\ SimSteps[7] = "dsp" /\ SimSteps[8] = "invoke"
BY DEF SimSteps

LEMMA AllocTable ==
  /\ run.mode = "unmapped" =>
       /\ Len(AllocSteps) = 4
       /\ AllocSteps[1] = "rpc" /\ AllocSteps[2] = "fd" /\ AllocSteps[3] = "fast"
       /\ AllocSteps[4] = "node"
  /\ run.mode # "unmapped" =>
       /\ Len(AllocSteps) = 6
       /\ AllocSteps[1] = "size" /\ AllocSteps[2] = "rpc" /\ AllocSteps[3] = "fd"
       /\ AllocSteps[4] = "fast" /\ AllocSteps[5] = "dsp" /\ AllocSteps[6] = "node"
BY DEF AllocSteps

LEMMA CloseTable == {CloseCalls[c] : c \in 1 .. 3} = SessionOnes
<1>1. CloseCalls[1] = Res("session") /\ CloseCalls[2] = Res("handle") /\ CloseCalls[3] = Res("ctx")
  BY DEF CloseCalls
<1>2. 1 .. 3 = {1, 2, 3}  OBVIOUS
<1>3. {CloseCalls[c] : c \in 1 .. 3} = {CloseCalls[1], CloseCalls[2], CloseCalls[3]}
  BY <1>2
<1> QED  BY <1>1, <1>3 DEF SessionOnes, SessionKinds

-----------------------------------------------------------------------------
(* What is undone when a step fails is what the steps before it took.      *)

SessionHeld == SessionOnes \intersect ledger
PartOf(b) == {Buf(kind, b) : kind \in BufKinds} \intersect ledger

LEMMA OpenUnwindCleans ==
  ASSUME PlaceOK, LedgerExact, at = "open"
  PROVE  Cleans(OpenUnwind(OpenSteps[k]), SessionHeld)
<1> DEFINE step == OpenSteps[k]
<1>0. k \in 1 .. 9  BY DEF PlaceOK
<1>1. /\ Res("session") \in Resource /\ Res("handle") \in Resource /\ Res("ctx") \in Resource
  BY ResourceKinds DEF SessionKinds
<1>2. ~Clash(Res("handle"), Res("ctx"))  BY DEF Clash, Res
<1>3. /\ Res("ctx") \in ledger <=> k > 5
      /\ Res("handle") \in ledger <=> k > 6
      /\ Res("session") \in ledger <=> k > 7
  BY DEF LedgerExact, RunPlaces, HoldsSession, SessionKinds
<1>4. SessionOnes = {Res("session"), Res("handle"), Res("ctx")}
  BY DEF SessionOnes, SessionKinds
<1>5. CASE k \in 1 .. 5
  <2>1. OpenUnwind(step) = << >>  BY <1>5, OpenTable DEF OpenUnwind
  <2>2. SessionHeld = {}  BY <1>3, <1>4, <1>5 DEF SessionHeld
  <2> QED  BY <2>1, <2>2, CleansNothing
<1>6. CASE k = 6
  <2>1. OpenUnwind(step) = <<Res("ctx")>>  BY <1>6, OpenTable DEF OpenUnwind
  <2>2. SessionHeld = {Res("ctx")}  BY <1>3, <1>4, <1>6 DEF SessionHeld
  <2> QED  BY <1>1, <2>1, <2>2, CleansOne
<1>7. CASE k = 7
  <2>1. OpenUnwind(step) = <<Res("handle"), Res("ctx")>>
    BY <1>7, OpenTable DEF OpenUnwind
  <2>2. SessionHeld = {Res("handle"), Res("ctx")}  BY <1>3, <1>4, <1>7 DEF SessionHeld
  <2> QED  BY <1>1, <1>2, <2>1, <2>2, CleansPair
<1>8. CASE k \in 8 .. 9
  <2>1. OpenUnwind(step) = CloseCalls  BY <1>8, OpenTable DEF OpenUnwind
  <2>2. SessionHeld = SessionOnes  BY <1>3, <1>4, <1>8 DEF SessionHeld
  <2> QED  BY <2>1, <2>2, CloseCleans
<1> QED  BY <1>0, <1>5, <1>6, <1>7, <1>8

LEMMA AllocUnwindCleans ==
  ASSUME PlaceOK, LedgerExact, at = "alloc"
  PROVE  Cleans(AllocUnwind(AllocSteps[k], i), PartOf(i)) /\ Buf("node", i) \notin ledger
<1> DEFINE step == AllocSteps[k]
           F == Buf("fast", i)
           P == Buf("rpc", i)
<1>0. k \in 1 .. (IF run.mode = "unmapped" THEN 4 ELSE 6) /\ i \in 1 .. MaxBufs /\ ~InSim
  BY DEF PlaceOK, RunPlaces
<1>1. F \in Resource /\ P \in Resource  BY <1>0, ResourceKinds DEF BufKinds
<1>2. ~Clash(F, P)  BY DEF Clash, Res, Buf
<1>3. \A kind \in BufKinds : Buf(kind, i) \in ledger <=> k > AllocPlace(kind)
  BY <1>0 DEF LedgerExact, RunPlaces, HoldsBuf, HasWhole, AllHeld
<1>4. Buf("node", i) \notin ledger
  BY <1>0, <1>3 DEF AllocPlace, BufKinds
<1>5. SkipsRegister <=> run.mode = "unmapped"  BY <1>0 DEF SkipsRegister, InSim
<1>6. PartOf(i) = {Buf(kind, i) : kind \in {x \in BufKinds : k > AllocPlace(x)}}
  BY <1>3 DEF PartOf
<1>7. Cleans(<<P>>, {P}) /\ Cleans(<<F, P>>, {F, P})
  BY <1>1, <1>2, CleansOne, CleansPair
<1>8. step \in {"fd", "fast"} => AllocUnwind(step, i) = <<P>>
  BY DEF AllocUnwind
<1>9. step = "dsp" => AllocUnwind(step, i) = <<F, P>>
  BY DEF AllocUnwind
<1>10. step = "node" => AllocUnwind(step, i) = Registered(i) \o <<F, P>>
  BY DEF AllocUnwind
<1>11. step \in {"size", "rpc"} => AllocUnwind(step, i) = << >>
  BY DEF AllocUnwind
<1>12. {F, P} \in SUBSET {Buf(kind, i) : kind \in BufKinds \ {"dsp"}}  BY DEF BufKinds
<1>13. Cleans(Registered(i) \o <<F, P>>,
              {F, P} \union IF SkipsRegister THEN {} ELSE {Buf("dsp", i)})
  BY <1>0, <1>7, <1>12, RegisteredThen
<1>14. CASE run.mode = "unmapped"
  <2>1. CASE k = 1
    <3>1. {x \in BufKinds : k > AllocPlace(x)} = {}  BY <1>14, <2>1 DEF AllocPlace, BufKinds
    <3> QED  BY <1>4, <1>6, <1>11, <1>14, <2>1, <3>1, AllocTable, CleansNothing
  <2>2. CASE k \in 2 .. 3
    <3>1. {x \in BufKinds : k > AllocPlace(x)} = {"rpc"}
      BY <1>14, <2>2 DEF AllocPlace, BufKinds
    <3>2. PartOf(i) = {P}  BY <1>6, <3>1
    <3> QED  BY <1>4, <1>7, <1>8, <1>14, <2>2, <3>2, AllocTable
  <2>3. CASE k = 4
    <3>1. {x \in BufKinds : k > AllocPlace(x)} = {"rpc", "fast"}
      BY <1>14, <2>3 DEF AllocPlace, BufKinds
    <3>2. PartOf(i) = {F, P}  BY <1>6, <3>1
    <3>3. {F, P} \union (IF SkipsRegister THEN {} ELSE {Buf("dsp", i)}) = PartOf(i)
      BY <1>5, <1>14, <3>2
    <3>4. step = "node"  BY <1>14, <2>3, AllocTable
    <3>5. Cleans(AllocUnwind(step, i), PartOf(i))
      BY <1>10, <1>13, <3>3, <3>4
    <3> QED  BY <1>4, <3>5
  <2> QED  BY <1>0, <1>14, <2>1, <2>2, <2>3
<1>15. CASE run.mode # "unmapped"
  <2>1. CASE k \in 1 .. 2
    <3>1. {x \in BufKinds : k > AllocPlace(x)} = {}  BY <1>15, <2>1 DEF AllocPlace, BufKinds
    <3>2. PartOf(i) = {}  BY <1>6, <3>1
    <3>3. step \in {"size", "rpc"}
      <4>1. k = 1 \/ k = 2  BY <2>1
      <4> QED  BY <1>15, <4>1, AllocTable
    <3> QED  BY <1>4, <1>11, <3>2, <3>3, CleansNothing
  <2>2. CASE k \in 3 .. 4
    <3>1. {x \in BufKinds : k > AllocPlace(x)} = {"rpc"}
      BY <1>15, <2>2 DEF AllocPlace, BufKinds
    <3>2. PartOf(i) = {P}  BY <1>6, <3>1
    <3>3. step \in {"fd", "fast"}
      <4>1. k = 3 \/ k = 4  BY <2>2
      <4> QED  BY <1>15, <4>1, AllocTable
    <3> QED  BY <1>4, <1>7, <1>8, <3>2, <3>3
  <2>3. CASE k = 5
    <3>1. {x \in BufKinds : k > AllocPlace(x)} = {"rpc", "fast"}
      BY <1>15, <2>3 DEF AllocPlace, BufKinds
    <3>2. PartOf(i) = {F, P}  BY <1>6, <3>1
    <3>3. step = "dsp"  BY <1>15, <2>3, AllocTable
    <3> QED  BY <1>4, <1>7, <1>9, <3>2, <3>3
  <2>4. CASE k = 6
    <3>1. {x \in BufKinds : k > AllocPlace(x)} = {"rpc", "fast", "dsp"}
      BY <1>15, <2>4 DEF AllocPlace, BufKinds
    <3>2. PartOf(i) = {F, P} \union {Buf("dsp", i)}  BY <1>6, <3>1
    <3>3. {F, P} \union (IF SkipsRegister THEN {} ELSE {Buf("dsp", i)}) = PartOf(i)
      BY <1>5, <1>15, <3>2
    <3>4. step = "node"  BY <1>15, <2>4, AllocTable
    <3>5. Cleans(AllocUnwind(step, i), PartOf(i))
      BY <1>10, <1>13, <3>3, <3>4
    <3> QED  BY <1>4, <3>5
  <2> QED  BY <1>0, <1>15, <2>1, <2>2, <2>3, <2>4
<1> QED  BY <1>14, <1>15

(* The clean-up gives back everything: whole buffers by their pointer, the *)
(* one being made by its own unwinding, which is what first stands for.    *)
LEMMA CleanUpExact ==
  ASSUME PlaceOK, LedgerExact, at \in {"alloc", "stage"} \union AllHeld,
         NEW first,
         IF at = "alloc" THEN Cleans(first, PartOf(i)) ELSE first = << >>
  PROVE  Cleans(CleanUpQueue(first), ledger)
<1> DEFINE R == IF at = "alloc" THEN PartOf(i) ELSE {}
<1>0. ~InSim /\ at \in RunPlaces /\ i \in 1 .. MaxBufs /\ at \notin {"open", "template"}
  BY DEF PlaceOK, RunPlaces, AllHeld
<1>1. /\ run \in CommandLines /\ NBufs \in Nat /\ MaxBufs \in Nat /\ NBufs <= MaxBufs
  BY CommandLineTypes DEF PlaceOK
<1>2. Cleans(first, R)  BY CleansNothing
<1>3. R \subseteq {Buf(kind, i) : kind \in BufKinds}  BY DEF PartOf
<1>4. R = {} \/ Buf("node", i) \notin ledger  BY AllocUnwindCleans
<1>5. Cleans(CleanUpQueue(first), R \union BuffersFreed \union TemporariesHeld \union SessionOnes)
  BY <1>0, <1>1, <1>2, <1>3, <1>4, CleanUpCleans
<1>6. SessionOnes \subseteq ledger
  BY <1>0 DEF LedgerExact, HoldsSession, SessionOnes
<1>7. \A kind \in BufKinds, b \in 1 .. MaxBufs : Buf(kind, b) \in ledger <=> HoldsBuf(kind, b)
  BY <1>0 DEF LedgerExact
<1>8. k > AllocPlace("node") => at # "alloc"
  BY DEF PlaceOK, AllocPlace
<1>9. \A b \in 1 .. MaxBufs : HasWhole(b) <=> Buf("node", b) \in ledger
  BY <1>7, <1>8 DEF HoldsBuf, BufKinds
<1>10. \A b \in 1 .. MaxBufs : HasWhole(b) => b \in 1 .. NBufs
  BY <1>1 DEF HasWhole, PlaceOK, AllHeld
<1>11. BuffersFreed \subseteq ledger
  <2> SUFFICES ASSUME NEW b \in 1 .. NBufs, Buf("node", b) \in ledger
               PROVE  BufferOnes(b) \subseteq ledger
    BY DEF BuffersFreed, FreedBy
  <2>1. b \in 1 .. MaxBufs  BY <1>1
  <2>2. \A kind \in KindsOfBuffer : kind \in BufKinds /\ HoldsBuf(kind, b)
    BY <1>9, <2>1 DEF KindsOfBuffer, HoldsBuf, BufKinds
  <2> QED  BY <1>7, <2>1, <2>2 DEF BufferOnes
<1>12. R \subseteq ledger /\ TemporariesHeld \subseteq ledger
  BY DEF PartOf, TemporariesHeld, Temporary
<1>13. ASSUME NEW r \in ledger
       PROVE  r \in R \union BuffersFreed \union TemporariesHeld \union SessionOnes
  <2>1. CASE \E kind \in SessionKinds : r = Res(kind)
    BY <2>1 DEF SessionOnes
  <2>2. CASE \E kind \in TemporaryKinds : r = Res(kind)
    BY <2>2 DEF TemporariesHeld, Temporary
  <2>3. CASE \E kind \in BufKinds, b \in 1 .. MaxBufs : r = Buf(kind, b)
    <3>1. PICK kind \in BufKinds, b \in 1 .. MaxBufs : r = Buf(kind, b)
      BY <2>3
    <3>2. HoldsBuf(kind, b)  BY <1>7, <3>1
    <3>3. CASE HasWhole(b)
      <4>1. b \in 1 .. NBufs /\ Buf("node", b) \in ledger  BY <1>9, <1>10, <3>3
      <4>2. CASE kind # "dsp" \/ ~SkipsRegister
        <5>1. r \in BufferOnes(b)  BY <3>1, <4>2 DEF BufferOnes, KindsOfBuffer
        <5> QED  BY <4>1, <5>1 DEF BuffersFreed, FreedBy
      <4>3. CASE kind = "dsp" /\ SkipsRegister
        <5>1. at = "alloc" /\ b = i /\ b < i
          BY <3>2, <3>3, <4>3 DEF HoldsBuf, HasWhole, AllHeld
        <5> QED  BY <1>0, <5>1
      <4> QED  BY <4>2, <4>3
    <3>4. CASE ~HasWhole(b)
      <4>1. at = "alloc" /\ b = i  BY <3>2, <3>4 DEF HoldsBuf
      <4> QED  BY <3>1, <4>1 DEF PartOf
    <3> QED  BY <3>3, <3>4
  <2> QED  BY <2>1, <2>2, <2>3 DEF PlaceOK, Resource
<1>14. R \union BuffersFreed \union TemporariesHeld \union SessionOnes = ledger
  BY <1>6, <1>11, <1>12, <1>13
<1> QED  BY <1>5, <1>14

-----------------------------------------------------------------------------
(* The invariant holds initially and every action of hexlib_run keeps it.  *)

LEMMA HeldInit == HostInit => HeldInv
<1> SUFFICES ASSUME HostInit PROVE HeldInv
  OBVIOUS
<1>1. /\ run \in CommandLines /\ run.mode \in Modes /\ 1 \in 1 .. MaxBufs
      /\ NBufs \in 1 .. MaxBufs
  BY CommandLineTypes DEF HostInit
<1>2. at = (CASE run.mode = "batch" -> "template" [] InSim -> "sim" [] OTHER -> "open")
  BY DEF HostInit
<1>3. InSim <=> run.mode \in {"sim", "simunmapped"}  BY DEF InSim
<1>4. /\ at = "template" => run.mode = "batch" /\ ~InSim
      /\ at = "sim" => InSim
      /\ at = "open" => ~InSim
      /\ at \in {"template", "sim", "open"}
  BY <1>2, <1>3
<1>5. k = 1 /\ i = 1 /\ todo = << >> /\ ledger = {} /\ exit = Running
  BY DEF HostInit
<1>6. PlaceOK  BY <1>1, <1>4, <1>5 DEF PlaceOK, RunPlaces
<1>7. LedgerExact
  <2>1. at \in RunPlaces => \A kind \in SessionKinds : ~HoldsSession(kind)
    BY <1>4, <1>5 DEF RunPlaces, HoldsSession, SessionKinds
  <2>2. \A kind, b : ~HoldsBuf(kind, b)
    BY <1>4 DEF HoldsBuf, HasWhole, AllHeld
  <2> QED  BY <1>5, <2>1, <2>2 DEF LedgerExact
<1>8. SimLedgerExact  BY <1>4, <1>5 DEF SimLedgerExact
<1>9. QueueExact
  <2>1. Cleans(todo, {})  BY <1>5, CleansNothing
  <2> QED  BY <1>4, <1>5, <2>1 DEF QueueExact, Cleans, Running, Killed
<1> QED  BY <1>6, <1>7, <1>8, <1>9 DEF HeldInv

LEMMA ClashKept ==
  ASSUME run' = run
  PROVE  /\ InSim' = InSim /\ SkipsRegister' = SkipsRegister /\ NBufs' = NBufs
         /\ InOrder(todo)' <=> InOrder(todo')
         /\ Resource' = Resource
<1>1. InSim' = InSim /\ SkipsRegister' = SkipsRegister  BY DEF InSim, SkipsRegister
<1>2. NBufs' = NBufs  BY <1>1 DEF NBufs
<1>3. InOrder(todo)' <=> InOrder(todo')  BY <1>1 DEF InOrder, Clash, Res
<1>4. Resource' = Resource  BY DEF Resource, Res, Buf
<1> QED  BY <1>1, <1>2, <1>3, <1>4

(* A return path of hexlib_run that queues exactly what is held.           *)
LEMMA LeavingHolds ==
  ASSUME PlaceOK, ~InSim, run' = run, k' = k, i' = i, at' = "done",
         exit' # Killed, ledger' \subseteq Resource, Cleans(todo', ledger')
  PROVE  HeldInv'
<1>0. ~InSim' /\ Resource' = Resource  BY ClashKept
<1>1. PlaceOK'  BY <1>0 DEF PlaceOK, RunPlaces
<1>2. LedgerExact' /\ SimLedgerExact'  BY DEF LedgerExact, SimLedgerExact, RunPlaces
<1>3. QueueExact'
  <2>1. InOrder(todo)' /\ todo' \in Seq(Resource) /\ ToSet(todo') = ledger'
    BY ClashKept DEF Cleans
  <2>2. (ToSet(todo))' = ToSet(todo')  BY DEF ToSet
  <2> QED  BY <1>0, <2>1, <2>2 DEF QueueExact
<1> QED  BY <1>1, <1>2, <1>3 DEF HeldInv

(* A run that is killed queues nothing.                                    *)
LEMMA DyingHolds ==
  ASSUME PlaceOK, ~InSim, run' = run, k' = k, i' = i, at' = "done",
         exit' = Killed, todo' = << >>, ledger' \subseteq Resource
  PROVE  HeldInv'
<1>0. ~InSim' /\ Resource' = Resource  BY ClashKept
<1>1. PlaceOK'  BY <1>0 DEF PlaceOK, RunPlaces
<1>2. LedgerExact' /\ SimLedgerExact'  BY DEF LedgerExact, SimLedgerExact, RunPlaces
<1>3. QueueExact'
  <2>1. << >> \in Seq(Resource) /\ DOMAIN << >> = {}  OBVIOUS
  <2> QED  BY <1>0, <2>1 DEF QueueExact, InOrder, ToSet
<1> QED  BY <1>1, <1>2, <1>3 DEF HeldInv

(* A step that goes on, with nothing queued.                               *)
LEMMA GoingOnHolds ==
  ASSUME HeldInv, ~InSim, run' = run, at' \in RunPlaces, exit' = exit, todo' = << >>,
         at \in RunPlaces, ledger' \subseteq Resource,
         k' \in 1 .. 9, i' \in 1 .. MaxBufs,
         at' \in {"template", "input", "stage"} => run.mode = "batch",
         at' = "open" /\ run.mode = "usage" => k' = 1,
         at' = "alloc" => k' \in 1 .. (IF run.mode = "unmapped" THEN 4 ELSE 6),
         at' \in {"alloc", "stage"} => i' \in 1 .. NBufs,
         LedgerExact'
  PROVE  HeldInv'
<1>0. ~InSim' /\ Resource' = Resource /\ NBufs' = NBufs  BY ClashKept
<1>1. PlaceOK'  BY <1>0 DEF HeldInv, PlaceOK, RunPlaces
<1>2. SimLedgerExact'  BY DEF SimLedgerExact, RunPlaces
<1>3. QueueExact'
  <2>1. << >> \in Seq(Resource) /\ DOMAIN << >> = {}  OBVIOUS
  <2>2. exit' # Killed  BY DEF HeldInv, PlaceOK, Running, Killed
  <2> QED  BY <1>0, <2>1, <2>2 DEF QueueExact, InOrder, ToSet, RunPlaces
<1> QED  BY <1>1, <1>2, <1>3 DEF HeldInv

LEMMA UsageHolds == HeldInv /\ Usage => HeldInv'
<1> SUFFICES ASSUME HeldInv, Usage PROVE HeldInv'
  OBVIOUS
<1>1. /\ at = "open" /\ run.mode = "usage" /\ k = 1
      /\ ~InSim /\ run \in CommandLines
  BY DEF Usage, HeldInv, PlaceOK, RunPlaces
<1>2. /\ at' = "done" /\ exit' = ExitUsage /\ todo' = << >>
      /\ run' = run /\ k' = k /\ i' = i /\ ledger' = ledger
  BY DEF Usage, Leave
<1>3. ledger = {}
  <2>1. \A kind \in SessionKinds : Res(kind) \notin ledger
    BY <1>1 DEF HeldInv, LedgerExact, RunPlaces, HoldsSession, SessionKinds
  <2>2. \A kind \in TemporaryKinds : Res(kind) \notin ledger
    BY <1>1 DEF HeldInv, LedgerExact, RunPlaces, TemporaryKinds
  <2>3. \A kind \in BufKinds, b \in 1 .. MaxBufs : Buf(kind, b) \notin ledger
    BY <1>1 DEF HeldInv, LedgerExact, RunPlaces, HoldsBuf, HasWhole, AllHeld
  <2> QED  BY <2>1, <2>2, <2>3 DEF HeldInv, PlaceOK, Resource
<1>4. Cleans(todo', ledger') /\ ledger' \subseteq Resource
  BY <1>2, <1>3, CleansNothing
<1>5. exit' # Killed  BY <1>2 DEF ExitUsage, Killed
<1> QED  BY <1>1, <1>2, <1>4, <1>5, LeavingHolds DEF HeldInv

LEMMA ReadTemplateHolds == HeldInv /\ ReadTemplate => HeldInv'
<1> SUFFICES ASSUME HeldInv, ReadTemplate PROVE HeldInv'
  OBVIOUS
<1>1. /\ at = "template" /\ todo = << >> /\ run.mode = "batch" /\ run' = run
      /\ ~InSim /\ ledger = {} /\ run \in CommandLines /\ at \in RunPlaces
      /\ PlaceOK
  BY DEF ReadTemplate, HeldInv, PlaceOK, LedgerExact, RunPlaces
<1>2. 1 \in 1 .. MaxBufs  BY <1>1, CommandLineTypes
<1>3. Res("tmpl") \in Resource  BY ResourceKinds DEF TemporaryKinds
<1>4. CASE run.tmpl = "good"
  <2>1. /\ ledger' = {Res("tmpl")} /\ at' = "open" /\ k' = 1 /\ i' = 1
        /\ todo' = << >> /\ exit' = exit
    BY <1>1, <1>4 DEF ReadTemplate, GoTo
  <2>2. LedgerExact'
    <3>1. /\ \A kind \in SessionKinds : Res(kind) # Res("tmpl")
          /\ \A kind \in BufKinds, b \in 1 .. MaxBufs : Buf(kind, b) # Res("tmpl")
      BY DEF SessionKinds, BufKinds, Res, Buf
    <3> QED
      BY <1>1, <2>1, <3>1
      DEF LedgerExact, RunPlaces, HoldsSession, HoldsBuf, HasWhole, AllHeld, SessionKinds
  <2> QED
    BY <1>1, <1>2, <1>3, <2>1, <2>2, GoingOnHolds DEF RunPlaces
<1>5. CASE run.tmpl # "good"
  <2>1. /\ ledger' = (IF run.tmpl = "malformed" THEN {Res("tmpl")} ELSE {})
        /\ todo' = (IF run.tmpl = "malformed" THEN <<Res("tmpl")>> ELSE << >>)
        /\ at' = "done" /\ exit' = ExitUsage /\ k' = k /\ i' = i
    BY <1>1, <1>5 DEF ReadTemplate, Leave
  <2>2. Cleans(todo', ledger') /\ ledger' \subseteq Resource
    BY <1>3, <2>1, CleansOne, CleansNothing
  <2>3. exit' # Killed  BY <2>1 DEF ExitUsage, Killed
  <2> QED  BY <1>1, <2>1, <2>2, <2>3, LeavingHolds
<1> QED  BY <1>4, <1>5

(* One step of hexlib_open done: what it took is what the next step finds. *)
LEMMA OpenDoneHolds ==
  ASSUME HeldInv, at = "open", run.mode # "usage", run' = run, OpenStepDone,
         ledger' = ledger \union ({Res(OpenSteps[k])} \intersect SessionOnes)
  PROVE  HeldInv'
<1>0. /\ PlaceOK /\ LedgerExact /\ ~InSim /\ k \in 1 .. 9 /\ run \in CommandLines
      /\ todo = << >> /\ 1 \in 1 .. MaxBufs /\ NBufs \in 1 .. MaxBufs
      /\ run.mode \in Modes /\ MaxBufs \in Nat
  BY CommandLineTypes DEF HeldInv, PlaceOK, QueueExact, RunPlaces
<1>1. /\ \A kind \in SessionKinds : Res(kind) \in ledger <=>
           k > (CASE kind = "ctx" -> 5 [] kind = "handle" -> 6 [] kind = "session" -> 7)
      /\ \A kind \in BufKinds, b \in 1 .. MaxBufs : Buf(kind, b) \notin ledger
      /\ ledger \intersect {Res(t) : t \in TemporaryKinds} \subseteq {Res("tmpl")}
      /\ run.mode # "batch" => Res("tmpl") \notin ledger
  BY <1>0 DEF LedgerExact, RunPlaces, HoldsSession, HoldsBuf, HasWhole, AllHeld
<1>2. ledger' \subseteq Resource
  BY <1>0, ResourceKinds DEF PlaceOK, SessionOnes
<1>3. \A kind \in SessionKinds : Res(kind) \in ledger' <=> Res(kind) \in ledger \/ OpenSteps[k] = kind
  BY KindsApart DEF SessionOnes
<1>4. \A kind \in BufKinds, b \in 1 .. MaxBufs : Buf(kind, b) \notin ledger'
  BY <1>1, KindsApart DEF SessionOnes
<1>5. \A t \in TemporaryKinds : Res(t) \in ledger' <=> Res(t) \in ledger
  BY KindsApart DEF SessionOnes, SessionKinds, TemporaryKinds
<1>6. /\ OpenSteps[k] = "ctx" <=> k = 5
      /\ OpenSteps[k] = "handle" <=> k = 6
      /\ OpenSteps[k] = "session" <=> k = 7
      /\ OpenSteps[k] = "caps" <=> k = 2
  <2>1. k = 1 \/ k = 2 \/ k = 3 \/ k = 4 \/ k = 5 \/ k = 6 \/ k = 7 \/ k = 8 \/ k = 9
    BY <1>0
  <2> QED  BY <2>1, OpenTable
<1>7. \A kind \in SessionKinds : Res(kind) \in ledger' <=>
           k + 1 > (CASE kind = "ctx" -> 5 [] kind = "handle" -> 6 [] kind = "session" -> 7)
  BY <1>0, <1>1, <1>3, <1>6 DEF SessionKinds
<1>8. CASE run.mode = "caps" /\ OpenSteps[k] = "caps"
  <2>1. /\ at' = "done" /\ exit' = ExitOk /\ todo' = << >> /\ k' = k /\ i' = i
    BY <1>8 DEF OpenStepDone, Leave
  <2>2. ledger' = {}
    <3>1. \A kind \in SessionKinds : Res(kind) \notin ledger'
      BY <1>1, <1>3, <1>6, <1>8 DEF SessionKinds
    <3>2. \A t \in TemporaryKinds : Res(t) \notin ledger'
      BY <1>1, <1>5, <1>8 DEF Res
    <3> QED  BY <1>2, <1>4, <3>1, <3>2 DEF Resource
  <2>3. Cleans(todo', ledger')  BY <2>1, <2>2, CleansNothing
  <2>4. exit' # Killed  BY <2>1 DEF ExitOk, Killed
  <2> QED  BY <1>0, <1>2, <2>1, <2>3, <2>4, LeavingHolds
<1>9. CASE ~(run.mode = "caps" /\ OpenSteps[k] = "caps")
  <2>1. todo' = << >> /\ exit' = exit  BY <1>0, <1>9 DEF OpenStepDone
  <2>2. CASE k < 9
    <3>1. at' = "open" /\ k' = k + 1 /\ i' = 1
      BY <1>9, <2>2, OpenTable DEF OpenStepDone, GoTo
    <3>2. LedgerExact'
      <4>1. \A kind \in SessionKinds : Res(kind) \in ledger' <=> HoldsSession(kind)'
        BY <1>7, <3>1 DEF HoldsSession
      <4>2. \A kind, b : ~HoldsBuf(kind, b)'
        BY <3>1 DEF HoldsBuf, HasWhole, AllHeld
      <4>5. ledger' \intersect {Res(t) : t \in TemporaryKinds} \subseteq {Res("tmpl")}
        BY <1>1, <1>5
      <4>6. run.mode # "batch" => Res("tmpl") \notin ledger'
        BY <1>1, <1>5 DEF TemporaryKinds
      <4> QED
        BY <1>4, <3>1, <4>1, <4>2, <4>5, <4>6 DEF LedgerExact, Res, Buf
    <3>3. k' \in 1 .. 9 /\ i' \in 1 .. MaxBufs  BY <1>0, <2>2, <3>1
    <3> QED
      BY <1>0, <1>2, <2>1, <3>1, <3>2, <3>3, GoingOnHolds DEF RunPlaces
  <2>3. CASE ~(k < 9)
    <3>0. k = 9  BY <1>0, <2>3
    <3>1. /\ at' = IF run.mode = "batch" THEN "input" ELSE "alloc"
          /\ k' = 1 /\ i' = 1
      BY <1>9, <3>0, OpenTable DEF OpenStepDone, GoTo
    <3>2. LedgerExact'
      <4>1. \A kind \in SessionKinds : Res(kind) \in ledger' <=> HoldsSession(kind)'
        BY <1>7, <3>0, <3>1 DEF HoldsSession, SessionKinds
      <4>2. \A kind \in BufKinds, b \in 1 .. MaxBufs : ~HoldsBuf(kind, b)'
        <5>1. \A kind \in BufKinds : ~(1 > AllocPlace(kind)')
          BY DEF AllocPlace, BufKinds
        <5> QED  BY <1>0, <3>1, <5>1 DEF HoldsBuf, HasWhole, AllHeld
      <4>5. ledger' \intersect {Res(t) : t \in TemporaryKinds} \subseteq {Res("tmpl")}
        BY <1>1, <1>5
      <4> QED
        BY <1>4, <3>1, <4>1, <4>2, <4>5 DEF LedgerExact, Res, Buf
    <3>3. k' \in 1 .. 9 /\ i' \in 1 .. MaxBufs
          /\ k' \in 1 .. (IF run.mode = "unmapped" THEN 4 ELSE 6) /\ i' \in 1 .. NBufs
      BY <1>0, <3>1
    <3>4. /\ at' \in RunPlaces /\ at' # "open" /\ at \in RunPlaces
          /\ at' \in {"template", "input", "stage"} => run.mode = "batch"
      BY <3>1 DEF RunPlaces
    <3> QED
      BY <1>0, <1>2, <2>1, <3>2, <3>3, <3>4, GoingOnHolds
  <2> QED  BY <2>2, <2>3
<1> QED  BY <1>8, <1>9

(* A failed step of hexlib_open: its unwinding, then the template.         *)
LEMMA OpenFailedHolds ==
  ASSUME HeldInv, at = "open", run' = run, OpenFailed(OpenSteps[k]), ledger' = ledger
  PROVE  HeldInv'
<1>0. PlaceOK /\ LedgerExact /\ ~InSim  BY DEF HeldInv, PlaceOK, RunPlaces
<1>1. /\ at' = "done" /\ exit' = ExitSessionFailed /\ k' = k /\ i' = i
      /\ todo' = OpenUnwind(OpenSteps[k]) \o Free("tmpl")
  BY DEF OpenFailed, Leave
<1>2. Cleans(OpenUnwind(OpenSteps[k]), SessionHeld)  BY <1>0, OpenUnwindCleans
<1>3. SessionHeld \subseteq Resource /\ Res("tmpl") \notin SessionHeld
  BY ResourceKinds, KindsApart DEF SessionHeld, SessionOnes, SessionKinds
<1>4. Cleans(todo', SessionHeld \union Temporary("tmpl"))
  BY <1>1, <1>2, <1>3, ThenTemporary DEF TemporaryKinds
<1>5. SessionHeld \union Temporary("tmpl") = ledger
  <2>1. ledger \intersect {Res(t) : t \in TemporaryKinds} \subseteq {Res("tmpl")}
    BY <1>0 DEF LedgerExact, RunPlaces
  <2>2. \A kind \in BufKinds, b \in 1 .. MaxBufs : Buf(kind, b) \notin ledger
    BY <1>0 DEF LedgerExact, RunPlaces, HoldsBuf, HasWhole, AllHeld
  <2>3. ledger \subseteq Resource  BY <1>0 DEF PlaceOK
  <2>4. ASSUME NEW r \in ledger PROVE r \in SessionHeld \union Temporary("tmpl")
    <3>1. CASE r \in SessionOnes  BY <3>1 DEF SessionHeld
    <3>2. CASE r \in {Res(t) : t \in TemporaryKinds}  BY <2>1, <3>2 DEF Temporary
    <3> QED  BY <2>2, <2>3, <3>1, <3>2 DEF Resource, SessionOnes
  <2> QED  BY <2>4 DEF SessionHeld, Temporary
<1>6. exit' # Killed  BY <1>1 DEF ExitSessionFailed, Killed
<1>7. ledger' \subseteq Resource /\ Cleans(todo', ledger')
  BY <1>0, <1>4, <1>5 DEF PlaceOK
<1> QED  BY <1>0, <1>1, <1>6, <1>7, LeavingHolds

LEMMA LoadDriverHolds == HeldInv /\ LoadDriver => HeldInv'
<1> SUFFICES ASSUME HeldInv, LoadDriver PROVE HeldInv'
  OBVIOUS
<1>1. /\ at = "open" /\ k = 1 /\ run.mode # "usage" /\ run' = run /\ ledger' = ledger
  BY DEF LoadDriver
<1>2. OpenStepDone \/ OpenFailed("driver")  BY DEF LoadDriver, DrvInit
<1>3. OpenSteps[k] = "driver"  BY <1>1, OpenTable
<1>4. {Res(OpenSteps[k])} \intersect SessionOnes = {}
  BY <1>3 DEF SessionOnes, SessionKinds, Res
<1> QED  BY <1>1, <1>2, <1>3, <1>4, OpenDoneHolds, OpenFailedHolds

LEMMA OpenStepHolds == HeldInv /\ OpenStep => HeldInv'
<1> SUFFICES ASSUME HeldInv, OpenStep PROVE HeldInv'
  OBVIOUS
<1>1. at = "open" /\ k > 1 /\ run' = run  BY DEF OpenStep
<1>2. run.mode # "usage"  BY <1>1 DEF HeldInv, PlaceOK
<1>3. \/ /\ ledger' = ledger \union ({Res(OpenSteps[k])} \intersect SessionOnes)
         /\ OpenStepDone
      \/ OpenFailed(OpenSteps[k]) /\ ledger' = ledger
  BY CloseTable DEF OpenStep
<1> QED  BY <1>1, <1>2, <1>3, OpenDoneHolds, OpenFailedHolds

(* The clean-up of a run that has its session.                             *)
LEMMA CleanUpHolds ==
  ASSUME HeldInv, at \in {"alloc", "stage"} \union AllHeld,
         NEW code, code # Killed, NEW first,
         IF at = "alloc" THEN Cleans(first, PartOf(i)) ELSE first = << >>,
         CleanUp(code, first), run' = run, k' = k, i' = i, ledger' = ledger
  PROVE  HeldInv'
<1>1. PlaceOK /\ LedgerExact /\ ~InSim
  BY DEF HeldInv, PlaceOK, RunPlaces, AllHeld
<1>2. at' = "done" /\ exit' = code /\ todo' = CleanUpQueue(first)
  BY DEF CleanUp, Leave, CleanUpQueue
<1>3. Cleans(CleanUpQueue(first), ledger)  BY <1>1, CleanUpExact
<1>4. Cleans(todo', ledger') /\ ledger' \subseteq Resource
  BY <1>1, <1>2, <1>3 DEF PlaceOK
<1> QED  BY <1>1, <1>2, <1>4, LeavingHolds

LEMMA ReadInputHolds == HeldInv /\ ReadInput => HeldInv'
<1> SUFFICES ASSUME HeldInv, ReadInput PROVE HeldInv'
  OBVIOUS
<1>0. /\ at = "input" /\ PlaceOK /\ LedgerExact /\ ~InSim /\ run.mode = "batch"
      /\ run \in CommandLines /\ todo = << >> /\ run' = run
      /\ 1 \in 1 .. MaxBufs /\ NBufs \in 1 .. MaxBufs /\ MaxBufs \in Nat
  BY CommandLineTypes DEF ReadInput, HeldInv, PlaceOK, QueueExact, RunPlaces
<1>1. PICK got \in {<<Res("array")>>, << >>} :
        /\ ledger' = ledger \union ToSet(got) \union (IF run.in_len = -1 THEN {} ELSE {Res("in")})
        /\ \/ run.in_len = -1 /\ Leave(ExitUsage, got \o Free("tmpl") \o CloseCalls)
              /\ k' = k /\ i' = i
           \/ run.in_len # -1 /\ GoTo("alloc", 1, 1) /\ todo' = todo /\ exit' = exit
           \/ Die /\ k' = k /\ i' = i
  BY DEF ReadInput
<1>2. ToSet(got) \subseteq {Res("array")} /\ Cleans(got, ToSet(got))
  <2>1. Cleans(<<Res("array")>>, {Res("array")}) /\ Cleans(<< >>, {})
    BY CleansOne, CleansNothing, ResourceKinds DEF TemporaryKinds
  <2> QED  BY <2>1 DEF Cleans
<1>3. /\ Res("array") \in Resource /\ Res("in") \in Resource /\ Res("tmpl") \in Resource
      /\ Res("array") # Res("tmpl")
  BY ResourceKinds, KindsApart DEF TemporaryKinds
<1>4. ledger' \subseteq Resource  BY <1>0, <1>1, <1>2, <1>3 DEF PlaceOK
<1>5. /\ \A kind \in SessionKinds : Res(kind) \in ledger
      /\ \A kind \in BufKinds, b \in 1 .. MaxBufs : Buf(kind, b) \notin ledger
      /\ ledger \intersect {Res(t) : t \in TemporaryKinds} \subseteq {Res("tmpl")}
  BY <1>0 DEF LedgerExact, RunPlaces, HoldsSession, HoldsBuf, HasWhole, AllHeld
<1>6. CASE run.in_len = -1 /\ Leave(ExitUsage, got \o Free("tmpl") \o CloseCalls)
           /\ k' = k /\ i' = i
  <2>1. Cleans(got \o Free("tmpl"), ToSet(got) \union Temporary("tmpl"))
    BY <1>2, <1>3, ThenTemporary DEF TemporaryKinds
  <2>2. \A x \in ToSet(got) \union Temporary("tmpl"), y \in SessionOnes : ~Clash(x, y)
    <3>1. \A y \in SessionOnes : y \in Resource /\ y # Res("array") /\ y # Res("tmpl")
      BY ResourceKinds, KindsApart DEF SessionOnes, SessionKinds
    <3>2. \A y \in SessionOnes : ~Clash(Res("array"), y) /\ ~Clash(Res("tmpl"), y)
      BY <3>1, TemporariesFree DEF TemporaryKinds
    <3> QED  BY <1>2, <3>2 DEF Temporary
  <2>3. Cleans(todo', ToSet(got) \union Temporary("tmpl") \union SessionOnes)
    <3> DEFINE s == got \o Free("tmpl")
               R == ToSet(got) \union Temporary("tmpl")
    <3>1. todo' = s \o CloseCalls  BY <1>6 DEF Leave
    <3> HIDE DEF s, R
    <3>2. Cleans(s, R) /\ \A x \in R, y \in SessionOnes : ~Clash(x, y)
      BY <2>1, <2>2 DEF s, R
    <3>3. Cleans(s \o CloseCalls, R \union SessionOnes)
      BY <3>2, CloseCleans, CleansBoth
    <3> QED  BY <3>1, <3>3 DEF R
  <2>4. ledger = Temporary("tmpl") \union SessionOnes
    <3>1. \A r \in ledger : r \in Temporary("tmpl") \union SessionOnes
      <4> SUFFICES ASSUME NEW r \in ledger PROVE r \in Temporary("tmpl") \union SessionOnes
        OBVIOUS
      <4>1. CASE r \in {Res(t) : t \in TemporaryKinds}  BY <1>5, <4>1 DEF Temporary
      <4>2. r \in Resource  BY <1>0 DEF PlaceOK
      <4> QED  BY <1>5, <4>1, <4>2 DEF Resource, SessionOnes
    <3> QED  BY <1>5, <3>1 DEF Temporary, SessionOnes
  <2>5. Cleans(todo', ledger')
    <3>1. ledger' = ToSet(got) \union Temporary("tmpl") \union SessionOnes
      BY <1>1, <1>6, <2>4
    <3> QED  BY <2>3, <3>1
  <2>6. at' = "done" /\ exit' # Killed  BY <1>6 DEF Leave, ExitUsage, Killed
  <2> QED  BY <1>0, <1>4, <1>6, <2>5, <2>6, LeavingHolds
<1>7. CASE run.in_len # -1 /\ GoTo("alloc", 1, 1) /\ todo' = todo /\ exit' = exit
  <2>1. at' = "alloc" /\ k' = 1 /\ i' = 1 /\ todo' = << >> /\ exit' = exit
    BY <1>0, <1>7 DEF GoTo
  <2>2. \A kind \in BufKinds, b \in 1 .. MaxBufs : ~HoldsBuf(kind, b)'
    <3>1. \A kind \in BufKinds : ~(1 > AllocPlace(kind)')
      BY DEF AllocPlace, BufKinds
    <3> QED  BY <1>0, <2>1, <3>1 DEF HoldsBuf, HasWhole, AllHeld
  <2>3. \A kind \in BufKinds, b \in 1 .. MaxBufs : Buf(kind, b) \notin ledger'
    <3>1. \A kind \in BufKinds, b \in 1 .. MaxBufs :
            Buf(kind, b) # Res("array") /\ Buf(kind, b) # Res("in")
      BY KindsApart DEF TemporaryKinds
    <3> QED  BY <1>1, <1>2, <1>5, <3>1
  <2>4. \A kind \in SessionKinds : Res(kind) \in ledger' /\ HoldsSession(kind)'
    BY <1>1, <1>5, <2>1 DEF HoldsSession
  <2>5. LedgerExact'
    BY <2>1, <2>2, <2>3, <2>4 DEF LedgerExact, Res, Buf
  <2>6. /\ k' \in 1 .. 9 /\ i' \in 1 .. MaxBufs /\ i' \in 1 .. NBufs
        /\ k' \in 1 .. (IF run.mode = "unmapped" THEN 4 ELSE 6)
    BY <1>0, <2>1
  <2> QED
    BY <1>0, <1>4, <2>1, <2>5, <2>6, GoingOnHolds DEF RunPlaces
<1>8. CASE Die /\ k' = k /\ i' = i
  BY <1>0, <1>4, <1>8, DyingHolds DEF Die
<1> QED  BY <1>1, <1>6, <1>7, <1>8

(* One step of hexlib_alloc done: the buffer at hand has one resource more *)
(* or is whole.                                                            *)
LEMMA AllocDoneHolds ==
  ASSUME HeldInv, at = "alloc", run' = run, AllocStepDone, todo' = todo, exit' = exit,
         ledger' = IF AllocSteps[k] \in {"size", "fd"} THEN ledger
                   ELSE ledger \union {Buf(AllocSteps[k], i)}
  PROVE  HeldInv'
<1> DEFINE last == IF run.mode = "unmapped" THEN 4 ELSE 6
<1>0. /\ PlaceOK /\ LedgerExact /\ ~InSim /\ k \in 1 .. last /\ run \in CommandLines
      /\ todo = << >> /\ i \in 1 .. NBufs /\ 1 \in 1 .. MaxBufs /\ NBufs \in 1 .. MaxBufs
      /\ MaxBufs \in Nat /\ last \in 4 .. 6 /\ at \in RunPlaces
  BY CommandLineTypes DEF HeldInv, PlaceOK, QueueExact, RunPlaces
<1>1. /\ \A kind \in SessionKinds : Res(kind) \in ledger
      /\ \A kind \in BufKinds, b \in 1 .. MaxBufs :
           Buf(kind, b) \in ledger <=> HoldsBuf(kind, b)
  BY <1>0 DEF LedgerExact, RunPlaces, HoldsSession
<1>2. SkipsRegister <=> run.mode = "unmapped"  BY <1>0 DEF SkipsRegister, InSim
<1>3. Len(AllocSteps) = last  BY AllocTable
<1>4. /\ \A kind \in BufKinds : AllocSteps[k] = kind <=> k = AllocPlace(kind)
      /\ AllocSteps[k] \in {"size", "fd"} \union BufKinds
  <2>1. CASE run.mode = "unmapped"
    <3>1. k = 1 \/ k = 2 \/ k = 3 \/ k = 4  BY <1>0, <2>1
    <3> QED  BY <2>1, <3>1, AllocTable DEF AllocPlace, BufKinds
  <2>2. CASE run.mode # "unmapped"
    <3>1. k = 1 \/ k = 2 \/ k = 3 \/ k = 4 \/ k = 5 \/ k = 6  BY <1>0, <2>2
    <3> QED  BY <2>2, <3>1, AllocTable DEF AllocPlace, BufKinds
  <2> QED  BY <2>1, <2>2
<1>5. ledger' \subseteq Resource
  <2>1. i \in 1 .. MaxBufs  BY <1>0
  <2> QED  BY <1>0, <1>4, <2>1, ResourceKinds DEF PlaceOK
<1>6. \A kind \in BufKinds, b \in 1 .. MaxBufs :
        Buf(kind, b) \in ledger' <=> HoldsBuf(kind, b) \/ (b = i /\ k = AllocPlace(kind))
  <2> SUFFICES ASSUME NEW kind \in BufKinds, NEW b \in 1 .. MaxBufs
               PROVE  Buf(kind, b) \in ledger' <=> HoldsBuf(kind, b) \/ (b = i /\ k = AllocPlace(kind))
    OBVIOUS
  <2>1. i \in 1 .. MaxBufs  BY <1>0
  <2>2. kind \notin {"size", "fd"}  BY DEF BufKinds
  <2>3. CASE AllocSteps[k] \in {"size", "fd"}  BY <1>1, <1>4, <2>2, <2>3
  <2>4. CASE AllocSteps[k] \notin {"size", "fd"}
    <3>1. AllocSteps[k] \in BufKinds  BY <1>4, <2>4
    <3>2. Buf(kind, b) = Buf(AllocSteps[k], i) <=> (b = i /\ k = AllocPlace(kind))
      BY <1>4, <2>1, <3>1, KindsApart
    <3> QED  BY <1>1, <2>4, <3>2
  <2> QED  BY <2>3, <2>4
<1>7. \A kind \in BufKinds, b \in 1 .. MaxBufs :
        Buf(kind, b) \in ledger' <=> \/ b < i /\ (kind = "dsp" => ~SkipsRegister)
                                     \/ b = i /\ k + 1 > AllocPlace(kind)
  <2>1. \A kind \in BufKinds : AllocPlace(kind) \in Nat
    BY DEF AllocPlace, BufKinds
  <2>2. \A kind \in BufKinds : k + 1 > AllocPlace(kind) <=> k > AllocPlace(kind) \/ k = AllocPlace(kind)
    BY <1>0, <2>1
  <2>3. \A b \in 1 .. MaxBufs : HasWhole(b) <=> b < i
    BY DEF HasWhole, AllHeld
  <2> QED  BY <1>6, <2>2, <2>3 DEF HoldsBuf
<1>8. k = last => \A kind \in BufKinds : k + 1 > AllocPlace(kind) <=> (kind = "dsp" => ~SkipsRegister)
  BY <1>2 DEF AllocPlace, BufKinds
<1>9. \A kind \in SessionKinds : Res(kind) \in ledger'  BY <1>1
<1>10. at' # "template" /\ at' # "open" /\ at' # "input"
  BY DEF AllocStepDone, GoTo
<1>11. \A kind : HoldsSession(kind)'  BY <1>10 DEF HoldsSession
<1>12. /\ \A b \in 1 .. MaxBufs : b \in Nat
       /\ i \in Nat /\ NBufs \in Nat
  BY <1>0
<1>13. NBufs' = NBufs /\ SkipsRegister' = SkipsRegister  BY ClashKept
<1>14. CASE k < last
  <2>1. at' = "alloc" /\ k' = k + 1 /\ i' = i  BY <1>3, <1>14 DEF AllocStepDone, GoTo
  <2>2. \A kind \in BufKinds, b \in 1 .. MaxBufs : Buf(kind, b) \in ledger' <=> HoldsBuf(kind, b)'
    <3>1. \A kind : AllocPlace(kind)' = AllocPlace(kind)  BY DEF AllocPlace
    <3>2. \A b \in 1 .. MaxBufs : HasWhole(b)' <=> b < i
      BY <2>1 DEF HasWhole, AllHeld
    <3> QED  BY <1>7, <1>13, <2>1, <3>1, <3>2 DEF HoldsBuf
  <2>3. LedgerExact'  BY <1>9, <1>11, <2>1, <2>2 DEF LedgerExact, Res, Buf
  <2>4. k' \in 1 .. 9 /\ k' \in 1 .. last /\ i' \in 1 .. MaxBufs /\ i' \in 1 .. NBufs
    BY <1>0, <1>14, <2>1
  <2> QED  BY <1>0, <1>5, <2>1, <2>3, <2>4, GoingOnHolds DEF RunPlaces
<1>15. CASE k = last
  <2>1. \A kind \in BufKinds, b \in 1 .. MaxBufs :
          Buf(kind, b) \in ledger' <=> b <= i /\ (kind = "dsp" => ~SkipsRegister)
    BY <1>7, <1>8, <1>12, <1>15
  <2>2. \/ run.mode = "batch" /\ at' = "stage" /\ k' = 1 /\ i' = i
        \/ i < NBufs /\ at' = "alloc" /\ k' = 1 /\ i' = i + 1
        \/ ~(i < NBufs) /\ at' = "build" /\ k' = 1 /\ i' = 1
    BY <1>3, <1>15 DEF AllocStepDone, GoTo
  <2>3. \A kind \in BufKinds, b \in 1 .. MaxBufs : HoldsBuf(kind, b)' <=>
          b <= i /\ (kind = "dsp" => ~SkipsRegister)
    <3>0. \A kind \in BufKinds : ~(1 > AllocPlace(kind)')
      BY DEF AllocPlace, BufKinds
    <3>1. \A b \in 1 .. MaxBufs : HasWhole(b)' <=> b <= i
      <4>1. CASE at' = "stage" /\ i' = i  BY <4>1 DEF HasWhole, AllHeld
      <4>2. CASE at' = "alloc" /\ i' = i + 1  BY <1>12, <4>2 DEF HasWhole, AllHeld
      <4>3. CASE ~(i < NBufs) /\ at' = "build"
        <5>1. i = NBufs  BY <1>0, <4>3
        <5> QED  BY <1>13, <4>3, <5>1 DEF HasWhole, AllHeld
      <4> QED  BY <2>2, <4>1, <4>2, <4>3
    <3> QED  BY <1>13, <2>2, <3>0, <3>1 DEF HoldsBuf
  <2>4. LedgerExact'
    BY <1>9, <1>10, <1>11, <2>1, <2>3 DEF LedgerExact, Res, Buf
  <2>5. k' \in 1 .. 9 /\ k' \in 1 .. last /\ i' \in 1 .. MaxBufs
    BY <1>0, <1>12, <2>2
  <2>6. /\ at' \in RunPlaces /\ at' # "open" /\ todo' = << >>
        /\ at' \in {"template", "input", "stage"} => run.mode = "batch"
        /\ at' \in {"alloc", "stage"} => i' \in 1 .. NBufs
    BY <1>0, <2>2 DEF RunPlaces
  <2> QED  BY <1>0, <1>5, <2>4, <2>5, <2>6, GoingOnHolds
<1> QED  BY <1>0, <1>14, <1>15

LEMMA AllocStepHolds == HeldInv /\ AllocStep => HeldInv'
<1> SUFFICES ASSUME HeldInv, AllocStep PROVE HeldInv'
  OBVIOUS
<1>0. at = "alloc" /\ run' = run /\ PlaceOK /\ LedgerExact  BY DEF AllocStep, HeldInv
<1>1. \/ /\ ledger' = IF AllocSteps[k] \in {"size", "fd"} THEN ledger
                      ELSE ledger \union {Buf(AllocSteps[k], i)}
         /\ AllocStepDone /\ todo' = todo /\ exit' = exit
      \/ /\ CleanUp(IF run.mode = "batch" THEN ExitUsage ELSE ExitSessionFailed,
                    AllocUnwind(AllocSteps[k], i))
         /\ ledger' = ledger /\ k' = k /\ i' = i
  BY DEF AllocStep
<1>2. CASE AllocStepDone /\ todo' = todo /\ exit' = exit
           /\ ledger' = IF AllocSteps[k] \in {"size", "fd"} THEN ledger
                        ELSE ledger \union {Buf(AllocSteps[k], i)}
  BY <1>0, <1>2, AllocDoneHolds
<1>3. CASE /\ CleanUp(IF run.mode = "batch" THEN ExitUsage ELSE ExitSessionFailed,
                      AllocUnwind(AllocSteps[k], i))
           /\ ledger' = ledger /\ k' = k /\ i' = i
  <2>1. (IF run.mode = "batch" THEN ExitUsage ELSE ExitSessionFailed) # Killed
    BY DEF ExitUsage, ExitSessionFailed, Killed
  <2>2. Cleans(AllocUnwind(AllocSteps[k], i), PartOf(i))  BY <1>0, AllocUnwindCleans
  <2> QED  BY <1>0, <1>3, <2>1, <2>2, CleanUpHolds
<1> QED  BY <1>1, <1>2, <1>3

LEMMA StageBufferHolds == HeldInv /\ StageBuffer => HeldInv'
<1> SUFFICES ASSUME HeldInv, StageBuffer PROVE HeldInv'
  OBVIOUS
<1>0. /\ at = "stage" /\ PlaceOK /\ LedgerExact /\ ~InSim /\ run.mode = "batch"
      /\ run \in CommandLines /\ todo = << >> /\ run' = run /\ ledger' = ledger
      /\ i \in 1 .. NBufs /\ 1 \in 1 .. MaxBufs /\ NBufs \in 1 .. MaxBufs /\ MaxBufs \in Nat
  BY CommandLineTypes DEF StageBuffer, HeldInv, PlaceOK, QueueExact, RunPlaces
<1>1. \/ CleanUp(ExitUsage, << >>) /\ k' = k /\ i' = i
      \/ i < NBufs /\ GoTo("alloc", 1, i + 1) /\ todo' = todo /\ exit' = exit
      \/ ~(i < NBufs) /\ GoTo("response", 1, 1) /\ todo' = Free("in") /\ exit' = exit
  BY DEF StageBuffer
<1>2. /\ \A kind \in SessionKinds : Res(kind) \in ledger
      /\ \A kind \in BufKinds, b \in 1 .. MaxBufs :
           Buf(kind, b) \in ledger <=> b <= i /\ (kind = "dsp" => ~SkipsRegister)
  BY <1>0 DEF LedgerExact, RunPlaces, HoldsSession, HoldsBuf, HasWhole, AllHeld
<1>3. NBufs' = NBufs /\ SkipsRegister' = SkipsRegister  BY <1>0, ClashKept
<1>4. ledger' \subseteq Resource  BY <1>0 DEF PlaceOK
<1>5. \A b \in 1 .. MaxBufs : b \in Nat  BY <1>0
<1>6. CASE CleanUp(ExitUsage, << >>) /\ k' = k /\ i' = i
  <2>1. ExitUsage # Killed  BY DEF ExitUsage, Killed
  <2> QED  BY <1>0, <1>6, <2>1, CleanUpHolds
<1>7. CASE i < NBufs /\ GoTo("alloc", 1, i + 1) /\ todo' = todo /\ exit' = exit
  <2>1. at' = "alloc" /\ k' = 1 /\ i' = i + 1  BY <1>7 DEF GoTo
  <2>2. \A kind \in BufKinds, b \in 1 .. MaxBufs : HoldsBuf(kind, b)' <=>
          b <= i /\ (kind = "dsp" => ~SkipsRegister)
    <3>1. \A kind \in BufKinds : ~(1 > AllocPlace(kind)')
      BY DEF AllocPlace, BufKinds
    <3>2. \A b \in 1 .. MaxBufs : HasWhole(b)' <=> b <= i
      BY <1>0, <1>5, <2>1 DEF HasWhole, AllHeld
    <3> QED  BY <1>3, <2>1, <3>1, <3>2 DEF HoldsBuf
  <2>3. \A kind : HoldsSession(kind)'  BY <2>1 DEF HoldsSession
  <2>4. LedgerExact'  BY <1>0, <1>2, <2>1, <2>2, <2>3 DEF LedgerExact, Res, Buf
  <2>5. /\ k' \in 1 .. 9 /\ k' \in 1 .. (IF run.mode = "unmapped" THEN 4 ELSE 6)
        /\ i' \in 1 .. NBufs /\ i' \in 1 .. MaxBufs
    BY <1>0, <1>7, <2>1
  <2> QED  BY <1>0, <1>4, <1>7, <2>1, <2>4, <2>5, GoingOnHolds DEF RunPlaces
<1>8. CASE ~(i < NBufs) /\ GoTo("response", 1, 1) /\ todo' = Free("in") /\ exit' = exit
  <2>1. at' = "response" /\ k' = 1 /\ i' = 1 /\ i = NBufs  BY <1>0, <1>8 DEF GoTo
  <2>2. \A kind \in BufKinds, b \in 1 .. MaxBufs : HoldsBuf(kind, b)' <=>
          b <= i /\ (kind = "dsp" => ~SkipsRegister)
    BY <1>3, <2>1 DEF HoldsBuf, HasWhole, AllHeld
  <2>3. \A kind : HoldsSession(kind)'  BY <2>1 DEF HoldsSession
  <2>4. LedgerExact'  BY <1>0, <1>2, <2>1, <2>2, <2>3 DEF LedgerExact, Res, Buf
  <2>5. ~InSim' /\ Resource' = Resource  BY <1>0, ClashKept
  <2>6. PlaceOK'
    <3>1. k' \in 1 .. 9 /\ i' \in 1 .. MaxBufs  BY <1>0, <2>1
    <3> QED  BY <1>0, <1>8, <2>1, <2>5, <3>1 DEF PlaceOK, RunPlaces
  <2>7. SimLedgerExact'  BY <2>1 DEF SimLedgerExact
  <2>8. QueueExact'
    <3>1. Cleans(todo', Temporary("in"))  BY <1>8, FreeCleans DEF TemporaryKinds
    <3>2. todo' \in Seq(Resource) /\ InOrder(todo)' /\ ToSet(todo') \subseteq ledger
      BY <1>0, <3>1, ClashKept DEF Cleans, Temporary
    <3>3. todo' \in {<< >>, <<Res("in")>>}  BY <1>8 DEF Free
    <3>4. (ToSet(todo))' = ToSet(todo')  BY DEF ToSet
    <3>5. exit' # Killed  BY <1>0, <1>8 DEF PlaceOK, RunPlaces, Running, Killed
    <3> QED
      BY <1>0, <2>1, <2>5, <3>2, <3>3, <3>4, <3>5 DEF QueueExact, Res
  <2> QED  BY <2>4, <2>6, <2>7, <2>8 DEF HeldInv
<1> QED  BY <1>1, <1>6, <1>7, <1>8

LEMMA BuildBatchHolds == HeldInv /\ BuildBatch => HeldInv'
<1> SUFFICES ASSUME HeldInv, BuildBatch PROVE HeldInv'
  OBVIOUS
<1>0. /\ at = "build" /\ PlaceOK /\ LedgerExact /\ ~InSim
      /\ run \in CommandLines /\ todo = << >> /\ run' = run
      /\ 1 \in 1 .. MaxBufs /\ NBufs \in 1 .. MaxBufs /\ MaxBufs \in Nat
  BY CommandLineTypes DEF BuildBatch, HeldInv, PlaceOK, QueueExact, RunPlaces
<1>1. \/ CleanUp(ExitSessionFailed, << >>) /\ k' = k /\ i' = i /\ ledger' = ledger
      \/ ledger' = ledger \union {Res("blob")} /\ GoTo("response", 1, 1)
         /\ todo' = todo /\ exit' = exit
  BY DEF BuildBatch
<1>2. CASE CleanUp(ExitSessionFailed, << >>) /\ k' = k /\ i' = i /\ ledger' = ledger
  <2>1. ExitSessionFailed # Killed  BY DEF ExitSessionFailed, Killed
  <2> QED  BY <1>0, <1>2, <2>1, CleanUpHolds DEF AllHeld
<1>3. CASE ledger' = ledger \union {Res("blob")} /\ GoTo("response", 1, 1)
           /\ todo' = todo /\ exit' = exit
  <2>1. at' = "response" /\ k' = 1 /\ i' = 1  BY <1>3 DEF GoTo
  <2>2. Res("blob") \in Resource  BY ResourceKinds DEF TemporaryKinds
  <2>3. LedgerExact'
    <3>1. NBufs' = NBufs /\ SkipsRegister' = SkipsRegister  BY <1>0, ClashKept
    <3>2. /\ \A kind \in SessionKinds : Res(kind) \in ledger'
          /\ \A kind : HoldsSession(kind)'
      BY <1>0, <1>3, <2>1 DEF LedgerExact, RunPlaces, HoldsSession
    <3>3. \A kind \in BufKinds, b \in 1 .. MaxBufs :
            (Buf(kind, b) \in ledger' <=> Buf(kind, b) \in ledger)
            /\ (HoldsBuf(kind, b)' <=> HoldsBuf(kind, b))
      <4>1. \A kind \in BufKinds, b \in 1 .. MaxBufs : Buf(kind, b) # Res("blob")
        BY KindsApart DEF TemporaryKinds
      <4> QED  BY <1>0, <1>3, <2>1, <3>1, <4>1 DEF HoldsBuf, HasWhole, AllHeld
    <3>4. \A kind \in BufKinds, b \in 1 .. MaxBufs : Buf(kind, b) \in ledger <=> HoldsBuf(kind, b)
      BY <1>0 DEF LedgerExact, RunPlaces
    <3> QED  BY <2>1, <3>2, <3>3, <3>4 DEF LedgerExact, Res, Buf
  <2>4. k' \in 1 .. 9 /\ i' \in 1 .. MaxBufs  BY <1>0, <2>1
  <2>5. ledger' \subseteq Resource  BY <1>0, <1>3, <2>2 DEF PlaceOK
  <2> QED  BY <1>0, <1>3, <2>1, <2>3, <2>4, <2>5, GoingOnHolds DEF RunPlaces
<1> QED  BY <1>1, <1>2, <1>3

LEMMA AllocResponseHolds == HeldInv /\ AllocResponse => HeldInv'
<1> SUFFICES ASSUME HeldInv, AllocResponse PROVE HeldInv'
  OBVIOUS
<1>0. /\ at = "response" /\ PlaceOK /\ LedgerExact /\ ~InSim
      /\ run \in CommandLines /\ todo = << >> /\ run' = run /\ todo' = todo /\ exit' = exit
      /\ 1 \in 1 .. MaxBufs /\ NBufs \in 1 .. MaxBufs /\ MaxBufs \in Nat
      /\ ledger' \in {ledger, ledger \union {Res("rsp")}}
  BY CommandLineTypes DEF AllocResponse, HeldInv, PlaceOK, RunPlaces
<1>1. at' = "invoke" /\ k' = 1 /\ i' = 1  BY DEF AllocResponse, GoTo
<1>2. Res("rsp") \in Resource  BY ResourceKinds DEF TemporaryKinds
<1>3. LedgerExact'
  <2>1. NBufs' = NBufs /\ SkipsRegister' = SkipsRegister  BY <1>0, ClashKept
  <2>2. /\ \A kind \in SessionKinds : Res(kind) \in ledger'
        /\ \A kind : HoldsSession(kind)'
    BY <1>0, <1>1 DEF LedgerExact, RunPlaces, HoldsSession
  <2>3. \A kind \in BufKinds, b \in 1 .. MaxBufs :
          (Buf(kind, b) \in ledger' <=> Buf(kind, b) \in ledger)
          /\ (HoldsBuf(kind, b)' <=> HoldsBuf(kind, b))
    <3>1. \A kind \in BufKinds, b \in 1 .. MaxBufs : Buf(kind, b) # Res("rsp")
      BY KindsApart DEF TemporaryKinds
    <3> QED  BY <1>0, <1>1, <2>1, <3>1 DEF HoldsBuf, HasWhole, AllHeld
  <2>4. \A kind \in BufKinds, b \in 1 .. MaxBufs : Buf(kind, b) \in ledger <=> HoldsBuf(kind, b)
    BY <1>0 DEF LedgerExact, RunPlaces
  <2> QED  BY <1>1, <2>2, <2>3, <2>4 DEF LedgerExact, Res, Buf
<1>4. k' \in 1 .. 9 /\ i' \in 1 .. MaxBufs  BY <1>0, <1>1
<1>5. ledger' \subseteq Resource  BY <1>0, <1>2 DEF PlaceOK
<1> QED  BY <1>0, <1>1, <1>3, <1>4, <1>5, GoingOnHolds DEF RunPlaces

LEMMA InvokeHolds == HeldInv /\ Invoke => HeldInv'
<1> SUFFICES ASSUME HeldInv, Invoke PROVE HeldInv'
  OBVIOUS
<1>0. /\ at = "invoke" /\ PlaceOK /\ LedgerExact /\ ~InSim
      /\ run \in CommandLines /\ todo = << >> /\ run' = run /\ k' = k /\ i' = i
      /\ ledger' = ledger /\ ledger' \subseteq Resource
      /\ k \in 1 .. 9 /\ i \in 1 .. MaxBufs
  BY DEF Invoke, HeldInv, PlaceOK, QueueExact, RunPlaces
<1>1. (at' = "judge" /\ todo' = todo /\ exit' = exit) \/ Die  BY DEF Invoke
<1>2. CASE Die  BY <1>0, <1>2, DyingHolds DEF Die
<1>3. CASE at' = "judge" /\ todo' = todo /\ exit' = exit
  <2>1. LedgerExact'
    <3>1. NBufs' = NBufs /\ SkipsRegister' = SkipsRegister  BY <1>0, ClashKept
    <3>2. \A kind \in SessionKinds : Res(kind) \in ledger /\ HoldsSession(kind)'
      BY <1>0, <1>3 DEF LedgerExact, RunPlaces, HoldsSession
    <3>3. \A kind \in BufKinds, b \in 1 .. MaxBufs :
            (Buf(kind, b) \in ledger <=> HoldsBuf(kind, b))
            /\ (HoldsBuf(kind, b)' <=> HoldsBuf(kind, b))
      BY <1>0, <1>3, <3>1 DEF LedgerExact, RunPlaces, HoldsBuf, HasWhole, AllHeld
    <3> QED  BY <1>0, <1>3, <3>2, <3>3 DEF LedgerExact, Res, Buf
  <2> QED  BY <1>0, <1>3, <2>1, GoingOnHolds DEF RunPlaces
<1> QED  BY <1>1, <1>2, <1>3

(* Every code the verdict can give is an exit code.                        *)
LEMMA JudgedCode ==
  ASSUME Judge
  PROVE  \E code \in {ExitOk, ExitUsage, ExitNoResponse, ExitOpFailed, ExitMismatch,
                      ExitCoherencyMiss, ExitCoherencyGarbled} : CleanUp(code, << >>)
<1> DEFINE codes == {ExitOk, ExitUsage, ExitNoResponse, ExitOpFailed, ExitMismatch,
                     ExitCoherencyMiss, ExitCoherencyGarbled}
<1>1. BatchCode \in codes /\ SelfTestCode \in codes
  BY DEF BatchCode, SelfTestCode
<1>2. CoherencyCode \in codes
  BY DEF CoherencyCode
<1>3. (CASE ~OpResultOk -> ExitOpFailed
         [] OpResultOk /\ run.mode = "coherency" -> CoherencyCode
         [] OTHER -> SelfTestCode) \in codes
  BY <1>1, <1>2
<1>4. CASE ~ResponseIsValid  BY <1>4 DEF Judge
<1>5. CASE ResponseIsValid /\ answer.status # StatusOk  BY <1>5 DEF Judge
<1>6. CASE ResponseIsValid /\ answer.status = StatusOk
  <2>1. CASE run.mode = "batch"
    <3>1. WriteOut  BY <1>6, <2>1 DEF Judge
    <3> QED  BY <1>1, <3>1 DEF WriteOut
  <2>2. CASE run.mode # "batch"
    <3>1. CleanUp(CASE ~OpResultOk -> ExitOpFailed
                    [] OpResultOk /\ run.mode = "coherency" -> CoherencyCode
                    [] OTHER -> SelfTestCode, << >>)
      BY <1>6, <2>2 DEF Judge
    <3> HIDE DEF codes
    <3> QED  BY <1>3, <3>1 DEF codes
  <2> QED  BY <2>1, <2>2
<1> QED  BY <1>4, <1>5, <1>6

LEMMA JudgeHolds == HeldInv /\ Judge => HeldInv'
<1> SUFFICES ASSUME HeldInv, Judge PROVE HeldInv'
  OBVIOUS
<1>1. at = "judge" /\ run' = run /\ k' = k /\ i' = i /\ ledger' = ledger
  BY DEF Judge
<1>2. PICK code \in {ExitOk, ExitUsage, ExitNoResponse, ExitOpFailed, ExitMismatch,
                     ExitCoherencyMiss, ExitCoherencyGarbled} : CleanUp(code, << >>)
  BY JudgedCode
<1>3. code # Killed
  BY DEF ExitOk, ExitUsage, ExitNoResponse, ExitOpFailed, ExitMismatch,
         ExitCoherencyMiss, ExitCoherencyGarbled, Killed
<1> QED  BY <1>1, <1>2, <1>3, CleanUpHolds DEF AllHeld

(* A release takes the first of what is queued, and nothing that is queued *)
(* behind it: the mappings a closed handle takes along are not among it.   *)
LEMMA ReleaseHolds == HeldInv /\ Release => HeldInv'
<1> SUFFICES ASSUME HeldInv, Release PROVE HeldInv'
  OBVIOUS
<1> DEFINE r == Head(todo)
           gone == IF r = Res("handle") THEN DspMappings ELSE {}
<1>0. /\ PlaceOK /\ LedgerExact /\ QueueExact /\ todo # << >>
      /\ todo' = Tail(todo) /\ run' = run /\ at' = at /\ k' = k /\ i' = i /\ exit' = exit
      /\ ledger' = (ledger \ {r}) \ gone
  BY DEF HeldInv, Release, DspMappings
<1>1. Cleans(todo, ToSet(todo))  BY <1>0 DEF QueueExact, Cleans
<1>2. /\ r \in ToSet(todo) /\ Cleans(Tail(todo), ToSet(todo) \ {r})
      /\ \A x \in ToSet(todo) \ {r} : ~Clash(r, x)
  BY <1>0, <1>1, CleansTail
<1>3. ToSet(todo) \intersect gone = {}
  <2>1. \A b \in 1 .. MaxBufs : Clash(Res("handle"), Buf("dsp", b)) /\ Buf("dsp", b) # Res("handle")
    BY DEF Clash, Res, Buf
  <2> QED  BY <1>2, <2>1 DEF DspMappings
<1>4. /\ ToSet(todo') = ToSet(todo) \ {r} /\ todo' \in Seq(Resource) /\ InOrder(todo')
      /\ ToSet(todo') \subseteq ledger'
  BY <1>0, <1>2, <1>3 DEF Cleans, QueueExact
<1>5. /\ InSim' = InSim /\ Resource' = Resource /\ NBufs' = NBufs
      /\ SkipsRegister' = SkipsRegister /\ InOrder(todo)' /\ DspMappings' = DspMappings
      /\ (ToSet(todo))' = ToSet(todo')
  BY <1>0, <1>4, ClashKept DEF DspMappings, Buf, ToSet
<1>6. at = "done" \/ (at = "response" /\ todo = <<Res("in")>>)
  BY <1>0 DEF QueueExact
<1>7. PlaceOK'  BY <1>0, <1>5 DEF PlaceOK
<1>8. SimLedgerExact'  BY <1>0, <1>6 DEF SimLedgerExact
<1>9. CASE at = "done"
  <2>1. LedgerExact'  BY <1>0, <1>9 DEF LedgerExact, RunPlaces
  <2>2. exit = Killed => FALSE  BY <1>0 DEF QueueExact
  <2>3. CASE ~InSim
    <3>1. ToSet(todo') = ledger'
      BY <1>0, <1>3, <1>4, <1>9, <2>2, <2>3 DEF QueueExact
    <3> QED
      BY <1>0, <1>4, <1>5, <1>7, <1>8, <1>9, <2>1, <2>2, <2>3, <3>1 DEF QueueExact, HeldInv
  <2>4. CASE InSim
    <3>1. /\ Res("ctx") \notin ledger /\ \A b \in 1 .. MaxBufs : Buf("fast", b) \notin ledger
          /\ ToSet(todo) \intersect DspMappings = {}
          /\ DspMappings \intersect ledger # {} => Res("handle") \in ToSet(todo)
          /\ exit \notin 3 .. 8 => ledger \subseteq ToSet(todo) \union DspMappings
      BY <1>0, <1>9, <2>4 DEF QueueExact
    <3>2. Res("ctx") \notin ledger' /\ \A b \in 1 .. MaxBufs : Buf("fast", b) \notin ledger'
      BY <1>0, <3>1
    <3>3. ToSet(todo') \intersect DspMappings = {}  BY <1>4, <3>1
    <3>4. DspMappings \intersect ledger' # {} => Res("handle") \in ToSet(todo')
      BY <1>0, <1>4, <3>1
    <3>5. exit' \notin 3 .. 8 => ledger' \subseteq ToSet(todo') \union DspMappings
      BY <1>0, <1>4, <3>1
    <3>6. QueueExact'
      BY <1>0, <1>4, <1>5, <1>9, <2>2, <2>4, <3>2, <3>3, <3>4, <3>5 DEF QueueExact, Res, Buf
    <3> QED  BY <1>7, <1>8, <2>1, <3>6 DEF HeldInv
  <2> QED  BY <2>3, <2>4
<1>10. CASE at = "response" /\ todo = <<Res("in")>>
  <2>1. todo' = << >> /\ r = Res("in")  BY <1>0, <1>10
  <2>2. ledger' = ledger \ {Res("in")}
    <3>1. Res("in") # Res("handle")  BY DEF Res
    <3>2. gone = {}  BY <2>1, <3>1
    <3> HIDE DEF r, gone
    <3> QED  BY <1>0, <2>1, <3>2
  <2>3. LedgerExact'
    <3>1. /\ \A kind \in SessionKinds : Res(kind) # Res("in")
          /\ \A kind \in BufKinds, b \in 1 .. MaxBufs : Buf(kind, b) # Res("in")
      BY DEF SessionKinds, BufKinds, Res, Buf
    <3>2. \A kind \in SessionKinds : Res(kind) \in ledger /\ HoldsSession(kind)'
      BY <1>0, <1>10 DEF LedgerExact, RunPlaces, HoldsSession
    <3>3. \A kind \in BufKinds, b \in 1 .. MaxBufs :
            (Buf(kind, b) \in ledger <=> HoldsBuf(kind, b))
            /\ (HoldsBuf(kind, b)' <=> HoldsBuf(kind, b))
      BY <1>0, <1>5, <1>10 DEF LedgerExact, RunPlaces, HoldsBuf, HasWhole, AllHeld
    <3>4. \A kind \in SessionKinds : Res(kind) \in ledger' <=> HoldsSession(kind)'
      BY <2>2, <3>1, <3>2
    <3>5. \A kind \in BufKinds, b \in 1 .. MaxBufs : Buf(kind, b) \in ledger' <=> HoldsBuf(kind, b)'
      BY <2>2, <3>1, <3>3
    <3> QED  BY <1>0, <1>10, <3>4, <3>5 DEF LedgerExact, Res, Buf
  <2>4. exit' # Killed  BY <1>0, <1>10 DEF PlaceOK, RunPlaces, Running, Killed
  <2>5. QueueExact'  BY <1>0, <1>4, <1>5, <1>10, <2>1, <2>4 DEF QueueExact
  <2> QED  BY <1>7, <1>8, <2>3, <2>5 DEF HeldInv
<1> QED  BY <1>6, <1>9, <1>10

LEMMA StutterHolds == HeldInv /\ UNCHANGED hostVars => HeldInv'
<1> SUFFICES ASSUME HeldInv, UNCHANGED hostVars PROVE HeldInv'
  OBVIOUS
<1>0. /\ run' = run /\ at' = at /\ k' = k /\ i' = i /\ todo' = todo /\ ledger' = ledger
      /\ exit' = exit
  BY DEF hostVars
<1>1. /\ InSim' = InSim /\ Resource' = Resource /\ NBufs' = NBufs
      /\ SkipsRegister' = SkipsRegister /\ (InOrder(todo)' <=> InOrder(todo))
      /\ DspMappings' = DspMappings /\ (ToSet(todo))' = ToSet(todo)
  BY <1>0, ClashKept DEF DspMappings, Buf, ToSet
<1>2. PlaceOK'  BY <1>0, <1>1 DEF HeldInv, PlaceOK
<1>3. LedgerExact'
  <2>1. \A kind : HoldsSession(kind)' <=> HoldsSession(kind)  BY <1>0 DEF HoldsSession
  <2>2. \A kind : AllocPlace(kind)' = AllocPlace(kind)  BY <1>0 DEF AllocPlace
  <2>3. \A kind, b : HoldsBuf(kind, b)' <=> HoldsBuf(kind, b)
    BY <1>0, <1>1, <2>2 DEF HoldsBuf, HasWhole
  <2> QED  BY <1>0, <2>1, <2>3 DEF HeldInv, LedgerExact, Res, Buf
<1>4. SimLedgerExact'  BY <1>0, <1>1 DEF HeldInv, SimLedgerExact, Res, Buf
<1>5. QueueExact'  BY <1>0, <1>1 DEF HeldInv, QueueExact, Res, Buf
<1> QED  BY <1>2, <1>3, <1>4, <1>5 DEF HeldInv

-----------------------------------------------------------------------------
(* The same for the simulator's host.                                      *)

LEMMA SimCloseCleans ==
  ASSUME run \in CommandLines
  PROVE  /\ Cleans(SimClose, {Res("session"), Res("handle"), Buf("rpc", 1)})
         /\ Cleans(<<Buf("rpc", 1)>>, {Buf("rpc", 1)})
<1>1. 1 \in 1 .. MaxBufs  BY CommandLineTypes
<1>2. /\ Res("session") \in Resource /\ Res("handle") \in Resource /\ Buf("rpc", 1) \in Resource
  BY <1>1, ResourceKinds DEF SessionKinds, BufKinds
<1>3. /\ ~Clash(Res("session"), Res("handle")) /\ ~Clash(Res("session"), Buf("rpc", 1))
      /\ ~Clash(Res("handle"), Buf("rpc", 1))
  BY DEF Clash, Res, Buf
<1> QED  BY <1>2, <1>3, CleansTriple, CleansOne DEF SimClose

(* A return path of the simulator's host, over what it holds.              *)
LEMMA SimLeavingHolds ==
  ASSUME HeldInv, at \in {"sim", "report"}, run' = run, k' = k, i' = i, at' = "done",
         exit' # Killed, ledger' = ledger,
         \/ todo' = SimClose /\ (at = "report" \/ k > 5)
         \/ todo' = <<Buf("rpc", 1)>> /\ at = "sim" /\ k \in 6 .. 7 /\ exit' = k + 1
         \/ todo' = << >> /\ at = "sim" /\ k \in 1 .. 5 /\ exit' = k + 1
  PROVE  HeldInv'
<1>0. /\ PlaceOK /\ SimLedgerExact /\ InSim /\ run \in CommandLines /\ 1 \in 1 .. MaxBufs
      /\ k \in Nat
  BY CommandLineTypes DEF HeldInv, PlaceOK
<1>1. /\ InSim' /\ Resource' = Resource /\ (InOrder(todo)' <=> InOrder(todo'))
      /\ DspMappings' = DspMappings /\ (ToSet(todo))' = ToSet(todo')
  BY <1>0, ClashKept DEF DspMappings, Buf, ToSet
<1>2. PlaceOK'  BY <1>0, <1>1 DEF PlaceOK, RunPlaces
<1>3. LedgerExact' /\ SimLedgerExact'  BY DEF LedgerExact, SimLedgerExact, RunPlaces
<1>4. /\ \A x \in {Res("handle"), Res("session"), Buf("rpc", 1), Buf("dsp", 1)} :
           x # Res("ctx") /\ \A b \in 1 .. MaxBufs : x # Buf("fast", b)
      /\ \A x \in {Res("handle"), Res("session"), Buf("rpc", 1)} : x \notin DspMappings
      /\ Buf("dsp", 1) \in DspMappings
  BY <1>0 DEF Res, Buf, DspMappings
<1>5. /\ ledger \subseteq {Res("handle"), Res("session"), Buf("rpc", 1), Buf("dsp", 1)}
      /\ Buf("dsp", 1) \in ledger => at = "report" \/ k > 7
      /\ at = "report" \/ k > 5 => {Res("handle"), Res("session"), Buf("rpc", 1)} \subseteq ledger
      /\ at = "sim" /\ k = 1 => ledger = {}
  <2>1. ledger = (IF at = "report" \/ k > 1 THEN {Res("handle")} ELSE {})
          \union (IF at = "report" \/ k > 2 THEN {Res("session")} ELSE {})
          \union (IF at = "report" \/ k > 5 THEN {Buf("rpc", 1)} ELSE {})
          \union (IF (at = "report" \/ k > 7) /\ ~SkipsRegister THEN {Buf("dsp", 1)} ELSE {})
    BY <1>0 DEF SimLedgerExact
  <2>2. Buf("dsp", 1) \notin {Res("handle"), Res("session"), Buf("rpc", 1)}
    BY DEF Buf, Res
  <2>3. k > 5 => k > 1 /\ k > 2  BY <1>0
  <2> QED  BY <2>1, <2>2, <2>3
<1>6. /\ Res("ctx") \notin ledger' /\ \A b \in 1 .. MaxBufs : Buf("fast", b) \notin ledger'
  BY <1>4, <1>5
<1>7. CASE todo' = SimClose /\ (at = "report" \/ k > 5)
  <2>1. /\ todo' \in Seq(Resource) /\ InOrder(todo')
        /\ ToSet(todo') = {Res("session"), Res("handle"), Buf("rpc", 1)}
    BY <1>0, <1>7, SimCloseCleans DEF Cleans
  <2>2. /\ ToSet(todo') \subseteq ledger' /\ ToSet(todo') \intersect DspMappings = {}
        /\ Res("handle") \in ToSet(todo') /\ ledger' \subseteq ToSet(todo') \union DspMappings
    BY <1>4, <1>5, <1>7, <2>1
  <2>3. QueueExact'  BY <1>1, <1>6, <2>1, <2>2 DEF QueueExact, Res, Buf
  <2> QED  BY <1>2, <1>3, <2>3 DEF HeldInv
<1>8. CASE todo' = <<Buf("rpc", 1)>> /\ at = "sim" /\ k \in 6 .. 7 /\ exit' = k + 1
  <2>1. todo' \in Seq(Resource) /\ InOrder(todo') /\ ToSet(todo') = {Buf("rpc", 1)}
    BY <1>0, <1>8, SimCloseCleans DEF Cleans
  <2>2. /\ ToSet(todo') \subseteq ledger' /\ ToSet(todo') \intersect DspMappings = {}
        /\ DspMappings \intersect ledger' = {} /\ exit' \in 3 .. 8
    BY <1>4, <1>5, <1>8, <2>1
  <2>3. QueueExact'  BY <1>1, <1>6, <2>1, <2>2 DEF QueueExact, Res, Buf
  <2> QED  BY <1>2, <1>3, <2>3 DEF HeldInv
<1>9. CASE todo' = << >> /\ at = "sim" /\ k \in 1 .. 5 /\ exit' = k + 1
  <2>1. todo' \in Seq(Resource) /\ InOrder(todo') /\ ToSet(todo') = {}
    BY <1>9, CleansNothing DEF Cleans
  <2>2. /\ ToSet(todo') \subseteq ledger' /\ ToSet(todo') \intersect DspMappings = {}
        /\ DspMappings \intersect ledger' = {}
    BY <1>4, <1>5, <1>9, <2>1
  <2>3. exit' \notin 3 .. 8 => ledger' \subseteq ToSet(todo') \union DspMappings
    <3>1. exit' \notin 3 .. 8 => k = 1  BY <1>9
    <3> QED  BY <1>5, <1>9, <3>1
  <2>4. QueueExact'  BY <1>1, <1>6, <2>1, <2>2, <2>3 DEF QueueExact, Res, Buf
  <2> QED  BY <1>2, <1>3, <2>4 DEF HeldInv
<1> QED  BY <1>7, <1>8, <1>9

(* A step of the simulator's host done.                                    *)
LEMMA SimGoingOnHolds ==
  ASSUME HeldInv, at = "sim", run' = run, todo' = todo, exit' = exit, i' = 1,
         \/ k < 8 /\ at' = "sim" /\ k' = k + 1
         \/ k = 8 /\ at' = "report" /\ k' = 1,
         ledger' = ledger \union SimTakes(SimSteps[k])
  PROVE  HeldInv'
<1>0. /\ PlaceOK /\ SimLedgerExact /\ InSim /\ run \in CommandLines /\ 1 \in 1 .. MaxBufs
      /\ k \in 1 .. 8 /\ todo = << >> /\ exit = Running
  BY CommandLineTypes DEF HeldInv, PlaceOK, QueueExact
<1>1. /\ InSim' /\ Resource' = Resource /\ SkipsRegister' = SkipsRegister
      /\ (InOrder(todo)' <=> InOrder(todo')) /\ (ToSet(todo))' = ToSet(todo')
  BY <1>0, ClashKept DEF ToSet
<1>2. SimTakes(SimSteps[k]) =
           (IF k = 1 THEN {Res("handle")} ELSE {}) \union (IF k = 2 THEN {Res("session")} ELSE {})
             \union (IF k = 5 THEN {Buf("rpc", 1)} ELSE {})
             \union (IF k = 7 /\ ~SkipsRegister THEN {Buf("dsp", 1)} ELSE {})
  <2>1. k = 1 \/ k = 2 \/ k = 3 \/ k = 4 \/ k = 5 \/ k = 6 \/ k = 7 \/ k = 8  BY <1>0
  <2> QED  BY <2>1, SimTable DEF SimTakes
<1>3. /\ Res("session") \in Resource /\ Res("handle") \in Resource
      /\ Buf("rpc", 1) \in Resource /\ Buf("dsp", 1) \in Resource
  BY <1>0, ResourceKinds DEF SessionKinds, BufKinds
<1>4. ledger' \subseteq Resource  BY <1>0, <1>2, <1>3 DEF PlaceOK
<1>5. k' \in 1 .. 9 /\ i' \in 1 .. MaxBufs /\ (at' = "sim" => k' \in 1 .. 8)
  BY <1>0
<1>6. PlaceOK'  BY <1>0, <1>1, <1>4, <1>5 DEF PlaceOK, RunPlaces
<1>7. LedgerExact'  BY DEF LedgerExact, RunPlaces
<1>8. SimLedgerExact'
  <2>1. ledger = (IF k > 1 THEN {Res("handle")} ELSE {})
          \union (IF k > 2 THEN {Res("session")} ELSE {})
          \union (IF k > 5 THEN {Buf("rpc", 1)} ELSE {})
          \union (IF k > 7 /\ ~SkipsRegister THEN {Buf("dsp", 1)} ELSE {})
    BY <1>0 DEF SimLedgerExact
  <2>2. /\ (at' = "report" \/ k' > 1) <=> k > 1 \/ k = 1
        /\ (at' = "report" \/ k' > 2) <=> k > 2 \/ k = 2
        /\ (at' = "report" \/ k' > 5) <=> k > 5 \/ k = 5
        /\ (at' = "report" \/ k' > 7) <=> k > 7 \/ k = 7
    BY <1>0
  <2> QED  BY <1>1, <1>2, <2>1, <2>2 DEF SimLedgerExact, Res, Buf
<1>9. QueueExact'
  <2>1. << >> \in Seq(Resource) /\ DOMAIN << >> = {}  OBVIOUS
  <2> QED  BY <1>0, <1>1, <2>1 DEF QueueExact, InOrder, ToSet, Running, Killed
<1> QED  BY <1>6, <1>7, <1>8, <1>9 DEF HeldInv

LEMMA SimStepHolds == HeldInv /\ SimStep => HeldInv'
<1> SUFFICES ASSUME HeldInv, SimStep PROVE HeldInv'
  OBVIOUS
<1>0. at = "sim" /\ run' = run /\ k \in 1 .. 8  BY DEF SimStep, HeldInv, PlaceOK
<1>1. SimSteps[k] = "invoke" <=> k = 8
  <2>1. k = 1 \/ k = 2 \/ k = 3 \/ k = 4 \/ k = 5 \/ k = 6 \/ k = 7 \/ k = 8  BY <1>0
  <2> QED  BY <2>1, SimTable
<1>2. SimUnwind(SimSteps[k]) =
        IF k \in 1 .. 5 THEN << >> ELSE IF k \in 6 .. 7 THEN <<Buf("rpc", 1)>> ELSE SimClose
  <2>1. k = 1 \/ k = 2 \/ k = 3 \/ k = 4 \/ k = 5 \/ k = 6 \/ k = 7 \/ k = 8  BY <1>0
  <2> QED  BY <2>1, SimTable DEF SimUnwind
<1>3. \/ /\ ledger' = ledger \union SimTakes(SimSteps[k])
         /\ SimSteps[k] # "invoke" /\ GoTo("sim", k + 1, 1) /\ todo' = todo /\ exit' = exit
      \/ /\ ledger' = ledger \union SimTakes(SimSteps[k])
         /\ SimSteps[k] = "invoke" /\ GoTo("report", 1, 1) /\ todo' = todo /\ exit' = exit
      \/ /\ ledger' = ledger
         /\ Leave(k + 1, SimUnwind(SimSteps[k])) /\ k' = k /\ i' = i
  <2>1. PICK ok \in SimOutcomes(SimSteps[k]) :
           /\ ledger' = IF ok THEN ledger \union SimTakes(SimSteps[k]) ELSE ledger
           /\ CASE ok /\ SimSteps[k] # "invoke" ->
                     GoTo("sim", k + 1, 1) /\ UNCHANGED <<todo, exit, answer>>
                [] ok /\ SimSteps[k] = "invoke" ->
                     /\ GoTo("report", 1, 1)
                     /\ answer' \in SimAnswers
                     /\ UNCHANGED <<todo, exit>>
                [] ~ok ->
                     /\ Leave(k + 1, SimUnwind(SimSteps[k]))
                     /\ answer' = IF SimSteps[k] = "invoke" THEN RpcFailed ELSE answer
                     /\ UNCHANGED <<k, i>>
    BY DEF SimStep
  <2>2. ok \in BOOLEAN  BY DEF SimOutcomes
  <2>3. CASE ok /\ SimSteps[k] # "invoke"  BY <2>1, <2>3
  <2>4. CASE ok /\ SimSteps[k] = "invoke"  BY <2>1, <2>4
  <2>5. CASE ~ok  BY <2>1, <2>5
  <2> QED  BY <2>2, <2>3, <2>4, <2>5
<1>4. CASE /\ ledger' = ledger \union SimTakes(SimSteps[k])
           /\ \/ SimSteps[k] # "invoke" /\ GoTo("sim", k + 1, 1)
              \/ SimSteps[k] = "invoke" /\ GoTo("report", 1, 1)
           /\ todo' = todo /\ exit' = exit
  <2>1. /\ i' = 1
        /\ \/ k < 8 /\ at' = "sim" /\ k' = k + 1
           \/ k = 8 /\ at' = "report" /\ k' = 1
    BY <1>0, <1>1, <1>4 DEF GoTo
  <2> QED  BY <1>0, <1>4, <2>1, SimGoingOnHolds
<1>5. CASE /\ ledger' = ledger
           /\ Leave(k + 1, SimUnwind(SimSteps[k])) /\ k' = k /\ i' = i
  <2>1. at' = "done" /\ exit' = k + 1 /\ todo' = SimUnwind(SimSteps[k])
    BY <1>5 DEF Leave
  <2>2. exit' # Killed  BY <1>0, <2>1 DEF Killed
  <2>3. \/ todo' = SimClose /\ k > 5
        \/ todo' = <<Buf("rpc", 1)>> /\ k \in 6 .. 7
        \/ todo' = << >> /\ k \in 1 .. 5
    <3>1. k \in 1 .. 5 \/ k \in 6 .. 7 \/ k = 8  BY <1>0
    <3> QED  BY <1>2, <2>1, <3>1
  <2> QED  BY <1>0, <1>5, <2>1, <2>2, <2>3, SimLeavingHolds
<1> QED  BY <1>3, <1>4, <1>5

LEMMA SimReportHolds == HeldInv /\ SimReport => HeldInv'
<1> SUFFICES ASSUME HeldInv, SimReport PROVE HeldInv'
  OBVIOUS
<1>1. /\ at = "report" /\ run' = run /\ k' = k /\ i' = i /\ ledger' = ledger
      /\ at' = "done" /\ todo' = SimClose /\ exit' \in {0, 1}
  BY DEF SimReport, Leave
<1>2. exit' # Killed  BY <1>1 DEF Killed
<1> QED  BY <1>1, <1>2, SimLeavingHolds

-----------------------------------------------------------------------------
(* What is held is known at every place, and a return path has exactly     *)
(* that queued.                                                            *)
THEOREM HeldAlways == Spec => []HeldInv
<1>1. HeldInv /\ [Next]_hostVars => HeldInv'
  BY StutterHolds, UsageHolds, ReadTemplateHolds, LoadDriverHolds, OpenStepHolds,
     ReadInputHolds, AllocStepHolds, StageBufferHolds, BuildBatchHolds,
     AllocResponseHolds, InvokeHolds, JudgeHolds, ReleaseHolds, SimStepHolds,
     SimReportHolds DEF Next, HostNext, Ended
<1> QED  BY HeldInit, <1>1, PTL DEF Spec

(* Whatever fails and wherever, hexlib_run has given everything back when  *)
(* it exits, and the simulator's host from its invoke on.                  *)
THEOREM ExitIsClean == Spec => []CleanExit
<1>1. HeldInv => CleanExit
  <2> SUFFICES ASSUME HeldInv, Done, exit # Killed, ~(InSim /\ exit \in 3 .. 8)
               PROVE  ledger = {}
    BY DEF CleanExit
  <2>1. at = "done" /\ ToSet(todo) = {}  BY DEF Done, ToSet
  <2>2. CASE ~InSim  BY <2>1, <2>2 DEF HeldInv, QueueExact
  <2>3. CASE InSim
    <3>1. ledger \subseteq DspMappings /\ DspMappings \intersect ledger = {}
      BY <2>1, <2>3 DEF HeldInv, QueueExact
    <3> QED  BY <3>1
  <2> QED  BY <2>2, <2>3
<1> QED  BY HeldAlways, <1>1, PTL

(* Nothing is released twice, before it was acquired, or while what was    *)
(* built on it still stands.                                               *)
THEOREM ReleasesInOrder == Spec => []OnlyHeldReleased
<1>1. HeldInv => OnlyHeldReleased
  <2> SUFFICES ASSUME HeldInv, todo # << >>
               PROVE  LET r == Head(todo)
                      IN  /\ r \in ledger
                          /\ r[1] = "rpc" => {Buf("fast", r[2]), Buf("dsp", r[2])} \intersect ledger = {}
                          /\ r[1] = "fast" => Buf("dsp", r[2]) \notin ledger
                          /\ r[1] = "ctx" => Res("handle") \notin ledger
                          /\ r[1] = "session" /\ ~InSim =>
                               \A b \in 1 .. MaxBufs : Buf("dsp", b) \notin ledger
    BY DEF OnlyHeldReleased
  <2> DEFINE r == Head(todo)
  <2>0. QueueExact /\ PlaceOK  BY DEF HeldInv
  <2>1. Cleans(todo, ToSet(todo))  BY <2>0 DEF QueueExact, Cleans
  <2>2. r \in ToSet(todo) /\ \A x \in ToSet(todo) \ {r} : ~Clash(r, x)
    BY <2>1, CleansTail
  <2>3. r \in ledger /\ r \in Resource  BY <2>0, <2>2 DEF QueueExact, PlaceOK
  <2> HIDE DEF r
  <2>4. \A x \in ToSet(todo) : x # r => ~Clash(r, x)  BY <2>2
  <2>5. CASE at # "done"
    <3>1. r = Res("in")  BY <2>0, <2>5 DEF QueueExact, r
    <3> QED  BY <2>3, <3>1 DEF Res, r
  <2>6. CASE at = "done" /\ ~InSim
    <3>1. ToSet(todo) = ledger  BY <2>0, <2>6 DEF QueueExact
    <3>2. r[1] = "rpc" => ~(Buf("fast", r[2]) \in ledger) /\ ~(Buf("dsp", r[2]) \in ledger)
      BY <2>4, <3>1 DEF Clash, Buf, Res
    <3>3. r[1] = "fast" => Buf("dsp", r[2]) \notin ledger
      BY <2>4, <3>1 DEF Clash, Buf, Res
    <3>4. r[1] = "ctx" => r = Res("ctx")
      BY <2>3 DEF Resource, SessionKinds, TemporaryKinds, BufKinds, Res, Buf
    <3>5. r[1] = "session" => r = Res("session")
      BY <2>3 DEF Resource, SessionKinds, TemporaryKinds, BufKinds, Res, Buf
    <3>6. r[1] = "ctx" => Res("handle") \notin ledger
      BY <2>4, <3>1, <3>4 DEF Clash, Res
    <3>7. r[1] = "session" => \A b \in 1 .. MaxBufs : Buf("dsp", b) \notin ledger
      BY <2>4, <3>1, <3>5 DEF Clash, Res, Buf
    <3> QED  BY <2>3, <3>2, <3>3, <3>6, <3>7 DEF r
  <2>7. CASE at = "done" /\ InSim
    <3>1. /\ Res("ctx") \notin ledger
          /\ \A b \in 1 .. MaxBufs : Buf("fast", b) \notin ledger
          /\ DspMappings \intersect ledger # {} => Res("handle") \in ToSet(todo)
      BY <2>0, <2>7 DEF QueueExact
    <3>2. r[1] = "ctx" => r = Res("ctx")
      BY <2>3 DEF Resource, SessionKinds, TemporaryKinds, BufKinds, Res, Buf
    <3>3. r[1] \in {"rpc", "fast"} => r[2] \in 1 .. MaxBufs /\ r = Buf(r[1], r[2])
      BY <2>3 DEF Resource, SessionKinds, TemporaryKinds, BufKinds, Res, Buf
    <3>4. r[1] # "fast" /\ r[1] # "ctx"
      BY <2>3, <3>1, <3>2, <3>3
    <3>5. r[1] = "rpc" => DspMappings \intersect ledger = {}
      <4> SUFFICES ASSUME r[1] = "rpc", Res("handle") \in ToSet(todo) PROVE FALSE
        BY <3>1
      <4>1. Clash(r, Res("handle"))  BY <2>7 DEF Clash
      <4>2. r # Res("handle")  BY DEF Res
      <4> QED  BY <2>4, <4>1, <4>2
    <3>6. r[1] = "rpc" => Buf("fast", r[2]) \notin ledger /\ Buf("dsp", r[2]) \notin ledger
      BY <3>1, <3>3, <3>5 DEF DspMappings
    <3> QED  BY <2>3, <2>7, <3>4, <3>6 DEF r
  <2> QED  BY <2>5, <2>6, <2>7
<1> QED  BY HeldAlways, <1>1, PTL

-----------------------------------------------------------------------------
(* The protocol the skel relies on: every step of either host is one of    *)
(* its steps or none.                                                      *)

(* The session is nested in the handle and the mappings in the session;    *)
(* and before the invoke nothing has been asked.                           *)
NestInv ==
  /\ Res("session") \in ledger => Res("handle") \in ledger
  /\ \A b \in 1 .. MaxBufs : Buf("dsp", b) \in ledger =>
       Res("handle") \in ledger /\ (~InSim => Res("session") \in ledger)
  /\ InSim /\ Res("handle") \in ToSet(todo) => exit \notin 3 .. 8
  /\ at \in (RunPlaces \ {"judge"}) \union {"sim"} => ~Asked

LEMMA NestInit == HostInit => NestInv
<1> SUFFICES ASSUME HostInit PROVE NestInv
  OBVIOUS
<1>1. ledger = {} /\ todo = << >> /\ answer = NotAsked  BY DEF HostInit
<1>2. ToSet(todo) = {}  BY <1>1 DEF ToSet
<1> QED  BY <1>1, <1>2 DEF NestInv, Asked

(* While the program is not on a return path, its place says as much.      *)
Nested ==
  /\ Res("session") \in ledger => Res("handle") \in ledger
  /\ \A b \in 1 .. MaxBufs : Buf("dsp", b) \in ledger =>
       Res("handle") \in ledger /\ Res("session") \in ledger
  /\ Res("handle") \notin ToSet(todo)

LEMMA NestAtPlaces == HeldInv => (at # "done" => Nested)
<1> SUFFICES ASSUME HeldInv, at # "done" PROVE Nested
  OBVIOUS
<1>1. ToSet(todo) \subseteq {Res("in")}
  <2>1. ToSet(<< >>) = {} /\ ToSet(<<Res("in")>>) = {Res("in")}  BY DEF ToSet
  <2> QED  BY <2>1 DEF HeldInv, QueueExact
<1>2. Res("handle") # Res("in")  BY DEF Res
<1>3. CASE at \in RunPlaces
  <2>1. /\ Res("session") \in ledger <=> HoldsSession("session")
        /\ Res("handle") \in ledger <=> HoldsSession("handle")
        /\ \A b \in 1 .. MaxBufs : Buf("dsp", b) \in ledger <=> HoldsBuf("dsp", b)
    BY <1>3 DEF HeldInv, LedgerExact, SessionKinds, BufKinds
  <2>2. HoldsSession("session") => HoldsSession("handle")
    <3>1. k \in 1 .. 9  BY DEF HeldInv, PlaceOK
    <3> QED  BY <3>1 DEF HoldsSession
  <2>3. \A b : HoldsBuf("dsp", b) => at \in {"alloc", "stage"} \union AllHeld
    BY DEF HoldsBuf, HasWhole
  <2>4. at \in {"alloc", "stage"} \union AllHeld => HoldsSession("session")
    BY DEF HoldsSession, AllHeld
  <2> QED  BY <1>1, <1>2, <2>1, <2>2, <2>3, <2>4 DEF Nested
<1>4. CASE at \in {"sim", "report"}
  <2>1. k \in 1 .. 9  BY DEF HeldInv, PlaceOK
  <2>2. /\ (at = "report" \/ k > 1) <=> Res("handle") \in ledger
        /\ (at = "report" \/ k > 2) <=> Res("session") \in ledger
        /\ \A b \in 1 .. MaxBufs : Buf("dsp", b) \in ledger => at = "report" \/ k > 7
    BY <1>4 DEF HeldInv, SimLedgerExact, Res, Buf
  <2> QED  BY <1>1, <1>2, <2>1, <2>2 DEF Nested
<1> QED  BY <1>3, <1>4 DEF HeldInv, PlaceOK

(* What the skel sees does not change.                                     *)
SameView ==
  /\ \A kind \in {"handle", "session"} : Res(kind) \in ledger' <=> Res(kind) \in ledger
  /\ \A b \in 1 .. MaxBufs : Buf("dsp", b) \in ledger' <=> Buf("dsp", b) \in ledger
SameAnswer == answer' = answer

LEMMA QuietStep ==
  ASSUME SameView
  PROVE  SessionPhase' = SessionPhase /\ MappedBufs' = MappedBufs
<1>1. /\ Res("handle") \in ledger' <=> Res("handle") \in ledger
      /\ Res("session") \in ledger' <=> Res("session") \in ledger
  BY DEF SameView
<1>2. SessionPhase' = SessionPhase  BY <1>1 DEF SessionPhase, Res
<1>3. MappedBufs' = MappedBufs  BY DEF SameView, MappedBufs, Buf
<1> QED  BY <1>2, <1>3

(* A return path entered with the view the program had.                    *)
LEMMA NestOnLeaving ==
  ASSUME HeldInv, run' = run, at # "done", at' = "done", SameView,
         InSim /\ Res("handle") \in ToSet(todo') => exit' \notin 3 .. 8
  PROVE  NestInv'
<1>1. Nested  BY NestAtPlaces
<1>2. /\ Res("session") \in ledger' => Res("handle") \in ledger'
      /\ \A b \in 1 .. MaxBufs : Buf("dsp", b) \in ledger' =>
           Res("handle") \in ledger' /\ Res("session") \in ledger'
  BY <1>1 DEF SameView, Nested
<1>3. InSim' = InSim  BY ClashKept
<1> QED  BY <1>2, <1>3 DEF NestInv, RunPlaces, Res, Buf, ToSet

LEMMA NestGoingOn ==
  ASSUME HeldInv', at' # "done",
         at' \in (RunPlaces \ {"judge"}) \union {"sim"} => ~Asked'
  PROVE  NestInv'
<1>1. (at # "done" => Nested)'  BY NestAtPlaces, PTL
<1> QED  BY <1>1 DEF NestInv, Nested

(* A step the skel sees nothing of, on the way and on leaving.             *)
Keeps == NestInv' /\ [Protocol!ProtocolNext]_(Protocol!protocolVars)

LEMMA QuietKeeps ==
  ASSUME SameView, SameAnswer, NestInv'
  PROVE  Keeps
<1>1. Asked' = Asked  BY DEF SameAnswer, Asked
<1>2. UNCHANGED Protocol!protocolVars  BY <1>1, QuietStep DEF Protocol!protocolVars
<1> QED  BY <1>2 DEF Keeps

LEMMA QuietGoesOn ==
  ASSUME NestInv, HeldInv', SameView, SameAnswer, at' # "done",
         at \in (RunPlaces \ {"judge"}) \union {"sim"}
  PROVE  Keeps
<1>1. ~Asked'  BY DEF NestInv, SameAnswer, Asked
<1>2. NestInv'  BY <1>1, NestGoingOn
<1> QED  BY <1>2, QuietKeeps

LEMMA QuietLeaves ==
  ASSUME HeldInv, SameView, SameAnswer, run' = run, at \in RunPlaces, at' = "done"
  PROVE  Keeps
<1>1. ~InSim /\ at # "done"  BY DEF HeldInv, PlaceOK, RunPlaces
<1>2. NestInv'  BY <1>1, NestOnLeaving
<1> QED  BY <1>2, QuietKeeps

LEMMA SameLedger ==
  ASSUME ledger' = ledger PROVE SameView
BY DEF SameView

(* Temporaries and the kinds of a buffer but dsp are not the skel's.       *)
LEMMA UnseenTaken ==
  ASSUME NEW R, ledger' = ledger \union R,
         \A r \in R : \/ \E t \in TemporaryKinds : r = Res(t)
                      \/ \E kind \in BufKinds \ {"dsp"} : \E b : r = Buf(kind, b)
  PROVE  SameView
<1>1. \A t \in TemporaryKinds : /\ Res(t) # Res("handle") /\ Res(t) # Res("session")
                                /\ \A b : Res(t) # Buf("dsp", b)
  BY DEF TemporaryKinds, Res, Buf
<1>2. \A kind \in BufKinds \ {"dsp"} : \A c :
        /\ Buf(kind, c) # Res("handle") /\ Buf(kind, c) # Res("session")
        /\ \A b : Buf(kind, c) # Buf("dsp", b)
  BY DEF BufKinds, Res, Buf
<1> QED  BY <1>1, <1>2 DEF SameView

LEMMA LoadingKeeps ==
  ASSUME HeldInv, NestInv, HeldInv', Usage \/ ReadTemplate \/ LoadDriver
  PROVE  Keeps
<1>1. SameAnswer /\ run' = run
  BY DEF Usage, ReadTemplate, LoadDriver, SameAnswer
<1>2. SameView
  <2>1. CASE Usage \/ LoadDriver  BY <2>1, SameLedger DEF Usage, LoadDriver
  <2>2. CASE ReadTemplate
    <3>1. ledger = {}  BY <2>2 DEF ReadTemplate, HeldInv, LedgerExact, RunPlaces
    <3>2. ledger' = {} \/ ledger' = {Res("tmpl")}  BY <2>2, <3>1 DEF ReadTemplate
    <3>3. ledger' = ledger \union {} \/ ledger' = ledger \union {Res("tmpl")}
      BY <3>1, <3>2
    <3> QED  BY <3>3, SameLedger, UnseenTaken DEF TemporaryKinds
  <2> QED  BY <2>1, <2>2
<1>3. at \in RunPlaces \ {"judge"}
  BY DEF Usage, ReadTemplate, LoadDriver, RunPlaces
<1> QED  BY <1>1, <1>2, <1>3, QuietGoesOn, QuietLeaves

LEMMA OpenKeeps ==
  ASSUME HeldInv, NestInv, HeldInv', OpenStep
  PROVE  Keeps
<1>0. /\ at = "open" /\ run' = run /\ SameAnswer /\ k \in 1 .. 9 /\ ~InSim
      /\ at \in RunPlaces \ {"judge"} /\ ~Asked /\ ~Asked'
  BY DEF OpenStep, SameAnswer, HeldInv, PlaceOK, RunPlaces, NestInv, Asked
<1>1. \/ ledger' = ledger
      \/ /\ ledger' = ledger \union ({Res(OpenSteps[k])} \intersect SessionOnes)
         /\ OpenStepDone
  BY CloseTable DEF OpenStep
<1>2. CASE ledger' = ledger
  BY <1>0, <1>2, SameLedger, QuietGoesOn, QuietLeaves
<1>3. CASE ledger' = ledger \union ({Res(OpenSteps[k])} \intersect SessionOnes)
           /\ OpenStepDone /\ ledger' # ledger
  <2>1. k = 1 \/ k = 2 \/ k = 3 \/ k = 4 \/ k = 5 \/ k = 6 \/ k = 7 \/ k = 8 \/ k = 9
    BY <1>0
  <2>2. OpenSteps[k] \in SessionKinds
    BY <1>3 DEF SessionOnes, Res
  <2>3. \/ k = 5 /\ ledger' = ledger \union {Res("ctx")}
        \/ k = 6 /\ ledger' = ledger \union {Res("handle")}
        \/ k = 7 /\ ledger' = ledger \union {Res("session")}
    BY <1>3, <2>1, <2>2, OpenTable DEF SessionOnes, SessionKinds
  <2>4. at' # "done"
    <3>1. OpenSteps[k] # "caps"  BY <2>2 DEF SessionKinds
    <3> QED  BY <1>3, <3>1 DEF OpenStepDone, GoTo
  <2>5. NestInv'  BY <1>0, <2>4, NestGoingOn
  <2>6. /\ \A b \in 1 .. MaxBufs : Buf("dsp", b) # Res("ctx") /\ Buf("dsp", b) # Res("handle")
                                   /\ Buf("dsp", b) # Res("session")
        /\ Res("ctx") # Res("handle") /\ Res("ctx") # Res("session")
        /\ Res("handle") # Res("session")
    BY DEF Buf, Res
  <2>7. /\ k \in {5, 6} => Res("handle") \notin ledger
        /\ k \in {6, 7} => Res("session") \notin ledger
        /\ k = 7 => Res("handle") \in ledger
    BY <1>0 DEF HeldInv, LedgerExact, RunPlaces, HoldsSession, SessionKinds
  <2>8. MappedBufs' = MappedBufs
    <3>1. \A b \in 1 .. MaxBufs : Buf("dsp", b) \in ledger' <=> Buf("dsp", b) \in ledger
      BY <2>3, <2>6
    <3> QED  BY <3>1 DEF MappedBufs, Buf
  <2>9. Asked' = Asked  BY <1>0 DEF Asked, SameAnswer
  <2>10. CASE k = 5
    <3>1. SameView  BY <2>3, <2>6, <2>10 DEF SameView
    <3> QED  BY <1>0, <2>5, <3>1, QuietKeeps
  <2>11. CASE k = 6
    <3>1. SessionPhase = "closed" /\ SessionPhase' = "open"
      BY <2>3, <2>6, <2>7, <2>11 DEF SessionPhase, Res
    <3>2. Protocol!Open  BY <1>0, <2>8, <2>9, <3>1 DEF Protocol!Open
    <3> QED  BY <2>5, <3>2 DEF Keeps, Protocol!ProtocolNext
  <2>12. CASE k = 7
    <3>1. SessionPhase = "open" /\ SessionPhase' = "started"
      BY <2>3, <2>6, <2>7, <2>12 DEF SessionPhase, Res
    <3>2. Protocol!Start  BY <2>8, <2>9, <3>1 DEF Protocol!Start
    <3> QED  BY <2>5, <3>2 DEF Keeps, Protocol!ProtocolNext
  <2> QED  BY <2>3, <2>10, <2>11, <2>12
<1> QED  BY <1>1, <1>2, <1>3

LEMMA QuietRunKeeps ==
  ASSUME HeldInv, NestInv, HeldInv',
         ReadInput \/ StageBuffer \/ BuildBatch \/ AllocResponse \/ Judge
  PROVE  Keeps
<1>1. SameAnswer /\ run' = run
  BY DEF ReadInput, StageBuffer, BuildBatch, AllocResponse, Judge, SameAnswer
<1>2. SameView
  <2>1. CASE StageBuffer \/ Judge  BY <2>1, SameLedger DEF StageBuffer, Judge
  <2>2. CASE BuildBatch
    <3>1. ledger' = ledger \/ ledger' = ledger \union {Res("blob")}
      BY <2>2 DEF BuildBatch
    <3> QED  BY <3>1, SameLedger, UnseenTaken DEF TemporaryKinds
  <2>3. CASE AllocResponse
    <3>1. ledger' = ledger \/ ledger' = ledger \union {Res("rsp")}
      BY <2>3 DEF AllocResponse
    <3> QED  BY <3>1, SameLedger, UnseenTaken DEF TemporaryKinds
  <2>4. CASE ReadInput
    <3>1. PICK got \in {<<Res("array")>>, << >>} : ledger' = ledger \union ToSet(got) \union
                   (IF run.in_len = -1 THEN {} ELSE {Res("in")})
      BY <2>4 DEF ReadInput
    <3>2. ToSet(<<Res("array")>>) = {Res("array")} /\ ToSet(<< >>) = {}  BY DEF ToSet
    <3> DEFINE R == ToSet(got) \union (IF run.in_len = -1 THEN {} ELSE {Res("in")})
    <3>3. ledger' = ledger \union R /\ R \subseteq {Res("array"), Res("in")}
      BY <3>1, <3>2
    <3> HIDE DEF R
    <3>4. \A r \in R : \E t \in TemporaryKinds : r = Res(t)
      BY <3>3 DEF TemporaryKinds
    <3> QED  BY <3>3, <3>4, UnseenTaken
  <2> QED  BY <2>1, <2>2, <2>3, <2>4
<1>3. CASE Judge
  <2>1. at \in RunPlaces /\ at' = "done"
    BY <1>3, JudgedCode DEF Judge, RunPlaces, CleanUp, Leave
  <2> QED  BY <1>1, <1>2, <2>1, QuietLeaves
<1>4. CASE ReadInput \/ StageBuffer \/ BuildBatch \/ AllocResponse
  <2>1. at \in RunPlaces \ {"judge"}
    BY <1>4 DEF ReadInput, StageBuffer, BuildBatch, AllocResponse, RunPlaces
  <2> QED  BY <1>1, <1>2, <2>1, QuietGoesOn, QuietLeaves
<1> QED  BY <1>3, <1>4

LEMMA AllocKeeps ==
  ASSUME HeldInv, NestInv, HeldInv', AllocStep
  PROVE  Keeps
<1>0. /\ at = "alloc" /\ run' = run /\ SameAnswer /\ ~InSim /\ i \in 1 .. MaxBufs
      /\ at \in RunPlaces \ {"judge"} /\ ~Asked /\ ~Asked'
      /\ k \in 1 .. (IF run.mode = "unmapped" THEN 4 ELSE 6)
  BY DEF AllocStep, SameAnswer, HeldInv, PlaceOK, RunPlaces, NestInv, Asked
<1>1. \/ ledger' = ledger
      \/ ledger' = ledger \union {Buf(AllocSteps[k], i)} /\ AllocStepDone
         /\ AllocSteps[k] \notin {"size", "fd"}
  BY DEF AllocStep
<1>2. CASE ledger' = ledger
  BY <1>0, <1>2, SameLedger, QuietGoesOn, QuietLeaves
<1>3. CASE ledger' = ledger \union {Buf(AllocSteps[k], i)} /\ AllocStepDone
           /\ AllocSteps[k] \notin {"size", "fd"}
  <2>1. AllocSteps[k] \in BufKinds /\ (AllocSteps[k] = "dsp" => k = AllocPlace("dsp"))
    <3>1. CASE run.mode = "unmapped"
      <4>1. k = 1 \/ k = 2 \/ k = 3 \/ k = 4  BY <1>0, <3>1
      <4> QED  BY <1>3, <3>1, <4>1, AllocTable DEF BufKinds, AllocPlace
    <3>2. CASE run.mode # "unmapped"
      <4>1. k = 1 \/ k = 2 \/ k = 3 \/ k = 4 \/ k = 5 \/ k = 6  BY <1>0, <3>2
      <4> QED  BY <1>3, <3>2, <4>1, AllocTable DEF BufKinds, AllocPlace
    <3> QED  BY <3>1, <3>2
  <2>2. at' # "done"  BY <1>3 DEF AllocStepDone, GoTo
  <2>3. CASE AllocSteps[k] # "dsp"
    <3> DEFINE R == {Buf(AllocSteps[k], i)}
    <3>0. ledger' = ledger \union R /\ \A r \in R : \E kind \in BufKinds \ {"dsp"} : \E b : r = Buf(kind, b)
      BY <1>3, <2>1, <2>3
    <3> HIDE DEF R
    <3>1. SameView  BY <3>0, UnseenTaken
    <3> QED  BY <1>0, <2>2, <3>1, QuietGoesOn
  <2>4. CASE AllocSteps[k] = "dsp"
    <3>1. NestInv'  BY <1>0, <2>2, NestGoingOn
    <3>2. /\ Res("handle") \in ledger /\ Res("session") \in ledger
      BY <1>0 DEF HeldInv, LedgerExact, SessionKinds, HoldsSession
    <3>3. Buf("dsp", i) \notin ledger
      <4>1. ~HoldsBuf("dsp", i)
        BY <1>0, <2>1, <2>4 DEF HoldsBuf, HasWhole, AllHeld, AllocPlace
      <4> QED  BY <1>0, <4>1 DEF HeldInv, LedgerExact, BufKinds
    <3>4. \A b \in 1 .. MaxBufs : Buf("dsp", b) = Buf("dsp", i) => b = i
      BY DEF Buf
    <3>5. MappedBufs' = MappedBufs \union {i} /\ i \notin MappedBufs
      BY <1>0, <1>3, <2>4, <3>3, <3>4 DEF MappedBufs, Buf
    <3>6. Res("handle") \in ledger' /\ Res("session") \in ledger'
      BY <1>3, <3>2
    <3>7. SessionPhase = "started" /\ SessionPhase' = "started"
      BY <3>2, <3>6 DEF SessionPhase, Res
    <3>8. Asked' = Asked  BY <1>0 DEF SameAnswer, Asked
    <3>9. Protocol!Map(i)  BY <3>5, <3>7, <3>8 DEF Protocol!Map
    <3> QED  BY <1>0, <3>1, <3>9 DEF Keeps, Protocol!ProtocolNext
  <2> QED  BY <2>3, <2>4
<1> QED  BY <1>1, <1>2, <1>3

(* Whatever the DSP answers arrived: only a failed call did not.           *)
LEMMA AnswersShape ==
  /\ \A a \in Answers \ {RpcFailed} : a.rpc = TRUE
  /\ \A a \in SimAnswers : a.rpc = TRUE
  /\ NotAsked.rpc = FALSE /\ NotAsked.bad = TRUE
  /\ RpcFailed.rpc = FALSE /\ RpcFailed.bad = FALSE
  /\ Unwritten.rpc = TRUE /\ Unwritten.magic = FALSE
<1>1. /\ Unwritten.rpc = TRUE /\ Unwritten.magic = FALSE /\ Unwritten.bad = FALSE
      /\ Unwritten.status = 0
      /\ Unwritten = [rpc |-> TRUE, magic |-> FALSE, status |-> 0, nops |-> 0, bad |-> FALSE]
  BY DEF Unwritten
<1>2. /\ RpcFailed.rpc = FALSE /\ RpcFailed.bad = FALSE
      /\ NotAsked.rpc = FALSE /\ NotAsked.bad = TRUE
  BY DEF RpcFailed, Unwritten, NotAsked
<1>4. \A s : [Unwritten EXCEPT !.magic = TRUE, !.status = s].rpc = TRUE
  BY <1>1
<1> DEFINE Full == [rpc : {TRUE}, magic : {TRUE}, status : {StatusOk, StatusFailed},
                    nops : 0 .. NOps, bad : BOOLEAN]
<1>5. \A a \in Full : a.rpc = TRUE  OBVIOUS
<1>6. \A a \in Answers : a = RpcFailed \/ a = Unwritten \/ a \in Full
           \/ a = [Unwritten EXCEPT !.magic = TRUE, !.status = StatusUnmapped]
  <2> HIDE DEF Full
  <2>1. Answers = {RpcFailed, Unwritten} \union
                    IF Mapped = 1 .. NBufs THEN Full
                    ELSE {[Unwritten EXCEPT !.magic = TRUE, !.status = StatusUnmapped]}
    BY DEF Answers, Full
  <2> QED  BY <2>1
<1> HIDE DEF Full
<1>7. \A a \in Answers \ {RpcFailed} : a.rpc = TRUE  BY <1>1, <1>4, <1>5, <1>6
<1>8. \A a \in SimAnswers : a.rpc = TRUE
  <2>1. \A a \in SimAnswers : a \in Answers \ {RpcFailed}
                             \/ a = [Unwritten EXCEPT !.magic = TRUE, !.status = StatusFailed]
    BY DEF SimAnswers
  <2> QED  BY <1>4, <1>7, <2>1
<1> QED  BY <1>1, <1>2, <1>7, <1>8

LEMMA InvokeKeeps ==
  ASSUME HeldInv, NestInv, HeldInv', Invoke
  PROVE  Keeps
<1>0. /\ at = "invoke" /\ run' = run /\ ledger' = ledger /\ at \in RunPlaces /\ ~Asked
  BY DEF Invoke, RunPlaces, NestInv
<1>1. SameView  BY <1>0, SameLedger
<1>2. CASE Die /\ answer' = answer
  BY <1>0, <1>1, <1>2, QuietLeaves DEF Die, SameAnswer
<1>3. CASE at' = "judge" /\ answer' \in Answers \union {RpcFailed}
  <2>1. answer' # NotAsked
    BY <1>3, AnswersShape
  <2>2. Asked'  BY <2>1 DEF Asked, NotAsked, RpcFailed, Unwritten
  <2>3. NestInv'  BY <1>3, NestGoingOn DEF RunPlaces
  <2>4. Res("handle") \in ledger /\ Res("session") \in ledger
    BY <1>0 DEF HeldInv, LedgerExact, SessionKinds, HoldsSession
  <2>5. SessionPhase = "started"  BY <2>4 DEF SessionPhase
  <2>6. SessionPhase' = SessionPhase /\ MappedBufs' = MappedBufs  BY <1>1, QuietStep
  <2>7. Protocol!Invoke  BY <1>0, <2>2, <2>5, <2>6 DEF Protocol!Invoke
  <2> QED  BY <2>3, <2>7 DEF Keeps, Protocol!ProtocolNext
<1> QED  BY <1>2, <1>3 DEF Invoke

(* A release of a mapping, the session or the handle is the protocol's own *)
(* step; the skel sees nothing of any other.                               *)
LEMMA ReleaseKeeps ==
  ASSUME HeldInv, NestInv, HeldInv', Release
  PROVE  Keeps
<1> DEFINE r == Head(todo)
           gone == IF r = Res("handle") THEN DspMappings ELSE {}
<1>0. /\ todo # << >> /\ todo' = Tail(todo) /\ run' = run /\ at' = at /\ exit' = exit
      /\ ledger' = (ledger \ {r}) \ gone /\ answer' = answer
  BY DEF Release, DspMappings
<1>1. PlaceOK /\ LedgerExact /\ QueueExact  BY DEF HeldInv
<1>2. Cleans(todo, ToSet(todo))  BY <1>1 DEF QueueExact, Cleans
<1>3. /\ r \in ToSet(todo) /\ ToSet(Tail(todo)) = ToSet(todo) \ {r}
      /\ \A x \in ToSet(todo) \ {r} : ~Clash(r, x)
  BY <1>0, <1>2, CleansTail DEF Cleans
<1>4. r \in ledger /\ r \in Resource  BY <1>1, <1>3 DEF QueueExact, PlaceOK
<1>5. /\ InSim' = InSim /\ Asked' = Asked /\ (ToSet(todo))' = ToSet(todo) \ {r}
  BY <1>0, <1>3, ClashKept DEF Asked, ToSet
<1> HIDE DEF r
<1>6. CASE at = "response" /\ todo = <<Res("in")>>
  <2>1. r = Res("in")  BY <1>6 DEF r
  <2>2. ledger' = ledger \ {Res("in")}
    <3>1. Res("in") # Res("handle")  BY DEF Res
    <3> QED  BY <1>0, <2>1, <3>1
  <2>3. SameView  BY <2>2 DEF SameView, Res, Buf
  <2> QED  BY <1>0, <1>6, <2>3, QuietGoesOn DEF SameAnswer, RunPlaces
<1>7. CASE at = "done"
  <2>0. exit # Killed  BY <1>0, <1>1 DEF QueueExact
  <2>1. CASE r = Res("handle")
    <3>1. Res("session") \notin ledger
      <4>1. ASSUME Res("session") \in ToSet(todo) PROVE FALSE
        <5>1. Res("session") # r /\ Clash(r, Res("session"))
          BY <2>1 DEF Res, Clash
        <5> QED  BY <1>3, <4>1, <5>1
      <4>2. Res("session") \notin DspMappings  BY DEF Res, Buf, DspMappings
      <4>3. InSim => exit \notin 3 .. 8
        BY <1>3, <2>1 DEF NestInv
      <4>4. ledger \subseteq ToSet(todo) \union DspMappings
        BY <1>1, <1>7, <2>0, <4>3 DEF QueueExact
      <4> QED  BY <4>1, <4>2, <4>4
    <3>2. ledger' = (ledger \ {Res("handle")}) \ DspMappings  BY <1>0, <2>1
    <3>3. /\ Res("handle") \notin ledger' /\ Res("session") \notin ledger'
          /\ \A b \in 1 .. MaxBufs : Buf("dsp", b) \notin ledger'
      BY <3>1, <3>2 DEF DspMappings
    <3>4. SessionPhase = "open" /\ SessionPhase' = "closed"
      BY <1>4, <2>1, <3>1, <3>3 DEF SessionPhase, Res
    <3>5. MappedBufs' = {}  BY <3>3 DEF MappedBufs, Buf
    <3>6. Protocol!Close  BY <1>5, <3>4, <3>5 DEF Protocol!Close
    <3>7. NestInv'
      <4>1. InSim' => Res("handle") \notin (ToSet(todo))'  BY <1>5, <2>1
      <4> QED  BY <1>0, <1>7, <3>3, <4>1 DEF NestInv, Res, Buf, RunPlaces
    <3> QED  BY <3>6, <3>7 DEF Keeps, Protocol!ProtocolNext
  <2>2. CASE r # Res("handle")
    <3>1. ledger' = ledger \ {r}  BY <1>0, <2>2
    <3>2. Res("handle") \in ledger' <=> Res("handle") \in ledger
      BY <2>2, <3>1
    <3>3. Res("handle") \in (ToSet(todo))' => Res("handle") \in ToSet(todo)
      BY <1>5
    <3>4. CASE r = Res("session")
      <4>1. Res("session") \notin ledger' /\ Res("session") \in ledger
        BY <1>4, <3>1, <3>4
      <4>2. Res("handle") \in ledger  BY <4>1 DEF NestInv
      <4>3. \A b \in 1 .. MaxBufs : Buf("dsp", b) \in ledger' <=> Buf("dsp", b) \in ledger
        BY <3>1, <3>4 DEF Buf, Res
      <4>4. ~InSim => \A b \in 1 .. MaxBufs : Buf("dsp", b) \notin ledger
        <5> SUFFICES ASSUME ~InSim, NEW b \in 1 .. MaxBufs, Buf("dsp", b) \in ledger PROVE FALSE
          OBVIOUS
        <5>1. ToSet(todo) = ledger  BY <1>1, <1>7, <2>0 DEF QueueExact
        <5>2. Buf("dsp", b) # r /\ Clash(r, Buf("dsp", b))
          BY <3>4 DEF Buf, Res, Clash
        <5> QED  BY <1>3, <5>1, <5>2
      <4>5. SessionPhase = "started" /\ SessionPhase' = "open"
        BY <3>2, <4>1, <4>2 DEF SessionPhase, Res
      <4>6. MappedBufs' = MappedBufs  BY <4>3 DEF MappedBufs, Buf
      <4>7. Protocol!Stop  BY <1>5, <4>5, <4>6 DEF Protocol!Stop
      <4>8. NestInv'
        BY <1>0, <1>5, <1>7, <3>2, <3>3, <4>1, <4>2, <4>3, <4>4
        DEF NestInv, Res, Buf, RunPlaces
      <4> QED  BY <4>7, <4>8 DEF Keeps, Protocol!ProtocolNext
    <3>5. CASE r \in DspMappings
      <4>1. PICK b \in 1 .. MaxBufs : r = Buf("dsp", b)  BY <3>5 DEF DspMappings
      <4>2. ~InSim  BY <1>1, <1>3, <1>7, <3>5 DEF QueueExact
      <4>3. Res("handle") \in ledger /\ Res("session") \in ledger
        BY <1>4, <4>1, <4>2 DEF NestInv
      <4>4. Res("session") \in ledger' /\ Res("handle") \in ledger'
        BY <3>1, <4>1, <4>3 DEF Res, Buf
      <4>5. MappedBufs' = MappedBufs \ {b} /\ b \in MappedBufs
        <5>1. \A c \in 1 .. MaxBufs : Buf("dsp", c) = Buf("dsp", b) => c = b  BY DEF Buf
        <5> QED  BY <1>4, <3>1, <4>1, <5>1 DEF MappedBufs, Buf
      <4>6. SessionPhase = "started" /\ SessionPhase' = "started"
        BY <4>3, <4>4 DEF SessionPhase, Res
      <4>7. Protocol!Unmap(b)  BY <1>5, <4>5, <4>6 DEF Protocol!Unmap
      <4>8. NestInv'
        BY <1>0, <1>5, <1>7, <3>3, <4>2, <4>4 DEF NestInv, Res, Buf, RunPlaces
      <4> QED  BY <4>7, <4>8 DEF Keeps, Protocol!ProtocolNext
    <3>6. CASE r # Res("session") /\ r \notin DspMappings
      <4>1. SameView  BY <2>2, <3>1, <3>6 DEF SameView, DspMappings
      <4>2. \A b \in 1 .. MaxBufs : Buf("dsp", b) \in ledger' => Buf("dsp", b) \in ledger
        BY <3>1
      <4>3. Res("session") \in ledger' <=> Res("session") \in ledger
        BY <3>1, <3>6
      <4>4. NestInv'
        BY <1>0, <1>5, <1>7, <3>2, <3>3, <4>2, <4>3 DEF NestInv, Res, Buf, RunPlaces
      <4> QED  BY <1>0, <4>1, <4>4, QuietKeeps DEF SameAnswer
    <3> QED  BY <3>4, <3>5, <3>6
  <2> QED  BY <2>1, <2>2
<1> QED  BY <1>0, <1>1, <1>6, <1>7 DEF QueueExact

LEMMA SimKeeps ==
  ASSUME HeldInv, NestInv, HeldInv', SimStep
  PROVE  Keeps
<1>0. /\ at = "sim" /\ run' = run /\ k \in 1 .. 8 /\ InSim /\ ~Asked
  BY DEF SimStep, HeldInv, PlaceOK, NestInv
<1>1. k = 1 \/ k = 2 \/ k = 3 \/ k = 4 \/ k = 5 \/ k = 6 \/ k = 7 \/ k = 8  BY <1>0
<1>2. \/ /\ ledger' = ledger \union SimTakes(SimSteps[k])
         /\ SimSteps[k] # "invoke" /\ at' = "sim" /\ answer' = answer
      \/ /\ ledger' = ledger \union SimTakes(SimSteps[k])
         /\ SimSteps[k] = "invoke" /\ at' = "report" /\ answer' \in SimAnswers
      \/ /\ ledger' = ledger /\ at' = "done" /\ exit' = k + 1
         /\ todo' = SimUnwind(SimSteps[k])
         /\ answer' = IF SimSteps[k] = "invoke" THEN RpcFailed ELSE answer
  <2>1. PICK ok \in SimOutcomes(SimSteps[k]) :
           /\ ledger' = IF ok THEN ledger \union SimTakes(SimSteps[k]) ELSE ledger
           /\ CASE ok /\ SimSteps[k] # "invoke" ->
                     GoTo("sim", k + 1, 1) /\ UNCHANGED <<todo, exit, answer>>
                [] ok /\ SimSteps[k] = "invoke" ->
                     /\ GoTo("report", 1, 1)
                     /\ answer' \in SimAnswers
                     /\ UNCHANGED <<todo, exit>>
                [] ~ok ->
                     /\ Leave(k + 1, SimUnwind(SimSteps[k]))
                     /\ answer' = IF SimSteps[k] = "invoke" THEN RpcFailed ELSE answer
                     /\ UNCHANGED <<k, i>>
    BY DEF SimStep
  <2>2. ok \in BOOLEAN  BY DEF SimOutcomes
  <2>3. CASE ok /\ SimSteps[k] # "invoke"  BY <2>1, <2>3 DEF GoTo
  <2>4. CASE ok /\ SimSteps[k] = "invoke"  BY <2>1, <2>4 DEF GoTo
  <2>5. CASE ~ok  BY <2>1, <2>5 DEF Leave
  <2> QED  BY <2>2, <2>3, <2>4, <2>5
<1>3. /\ Res("handle") \in ledger <=> k > 1
      /\ Res("session") \in ledger <=> k > 2
      /\ Buf("dsp", 1) \in ledger <=> k > 7 /\ ~SkipsRegister
  BY <1>0 DEF HeldInv, SimLedgerExact, Res, Buf
<1>4. NestInv' /\ (ledger' = ledger /\ answer' # answer => SimSteps[k] = "invoke")
  <2>1. CASE at' # "done"
    <3>1. at' = "sim" => answer' = answer  BY <1>2, <2>1
    <3>2. at' \in {"sim", "report"}  BY <1>2, <2>1
    <3>3. at' = "sim" => ~Asked'  BY <1>0, <3>1 DEF Asked
    <3>4. NestInv'  BY <2>1, <3>2, <3>3, NestGoingOn DEF RunPlaces
    <3> QED  BY <1>2, <3>4
  <2>2. CASE at' = "done"
    <3>1. ledger' = ledger /\ exit' = k + 1 /\ todo' = SimUnwind(SimSteps[k])
      BY <1>2, <2>2
    <3>2. Res("handle") \in ToSet(todo') => k = 8
      <4>1. ToSet(<< >>) = {} /\ ToSet(<<Buf("rpc", 1)>>) = {Buf("rpc", 1)}
        BY DEF ToSet
      <4>2. k # 8 => todo' \in {<< >>, <<Buf("rpc", 1)>>}
        BY <1>1, <3>1, SimTable DEF SimUnwind
      <4> QED  BY <4>1, <4>2 DEF Res, Buf
    <3>3. NestInv'  BY <1>0, <2>2, <3>1, <3>2, SameLedger, NestOnLeaving
    <3> QED  BY <1>2, <2>2, <3>3
  <2> QED  BY <2>1, <2>2
<1>5. /\ RpcFailed # NotAsked /\ NotAsked \notin SimAnswers
  BY AnswersShape
<1>6. CASE SimSteps[k] = "invoke"
  <2>1. k = 8  BY <1>1, <1>6, SimTable
  <2>2. ledger' = ledger
    BY <1>2, <1>6 DEF SimTakes
  <2>3. Asked'  BY <1>2, <1>5, <1>6 DEF Asked, NotAsked, RpcFailed, Unwritten
  <2>4. SessionPhase = "started"  BY <1>3, <2>1 DEF SessionPhase
  <2>5. SessionPhase' = SessionPhase /\ MappedBufs' = MappedBufs
    BY <2>2, SameLedger, QuietStep
  <2>6. Protocol!Invoke  BY <1>0, <2>3, <2>4, <2>5 DEF Protocol!Invoke
  <2> QED  BY <1>4, <2>6 DEF Keeps, Protocol!ProtocolNext
<1>7. CASE SimSteps[k] # "invoke" /\ ledger' = ledger
  <2>1. SameView /\ SameAnswer  BY <1>2, <1>7, SameLedger DEF SameAnswer
  <2> QED  BY <1>4, <2>1, QuietKeeps
<1>8. CASE SimSteps[k] # "invoke" /\ ledger' = ledger \union SimTakes(SimSteps[k])
           /\ ledger' # ledger /\ answer' = answer
  <2>0. Asked' = Asked  BY <1>8 DEF Asked
  <2>1. \/ k = 1 /\ ledger' = ledger \union {Res("handle")}
        \/ k = 2 /\ ledger' = ledger \union {Res("session")}
        \/ k = 5 /\ ledger' = ledger \union {Buf("rpc", 1)}
        \/ k = 7 /\ ~SkipsRegister /\ ledger' = ledger \union {Buf("dsp", 1)}
    BY <1>1, <1>8, SimTable DEF SimTakes
  <2>2. CASE k = 1
    <3>1. SessionPhase = "closed" /\ SessionPhase' = "open"
      BY <1>3, <2>1, <2>2 DEF SessionPhase, Res
    <3>2. MappedBufs' = MappedBufs
      BY <2>1, <2>2 DEF MappedBufs, Buf, Res
    <3>3. Protocol!Open  BY <1>0, <2>0, <3>1, <3>2 DEF Protocol!Open
    <3> QED  BY <1>4, <3>3 DEF Keeps, Protocol!ProtocolNext
  <2>3. CASE k = 2
    <3>1. SessionPhase = "open" /\ SessionPhase' = "started"
      BY <1>3, <2>1, <2>3 DEF SessionPhase, Res
    <3>2. MappedBufs' = MappedBufs
      BY <2>1, <2>3 DEF MappedBufs, Buf, Res
    <3>3. Protocol!Start  BY <2>0, <3>1, <3>2 DEF Protocol!Start
    <3> QED  BY <1>4, <3>3 DEF Keeps, Protocol!ProtocolNext
  <2>4. CASE k = 5
    <3> DEFINE R == {Buf("rpc", 1)}
    <3>1. ledger' = ledger \union R  BY <2>1, <2>4
    <3>2. \A r \in R : \E kind \in BufKinds \ {"dsp"} : \E b : r = Buf(kind, b)
      BY DEF BufKinds
    <3> HIDE DEF R
    <3>3. SameView  BY <3>1, <3>2, UnseenTaken
    <3> QED  BY <1>4, <1>8, <3>3, QuietKeeps DEF SameAnswer
  <2>5. CASE k = 7
    <3>1. SessionPhase = "started" /\ SessionPhase' = "started"
      BY <1>3, <2>1, <2>5 DEF SessionPhase, Res
    <3>2. Buf("dsp", 1) \notin ledger  BY <1>3, <2>5
    <3>3. 1 \in 1 .. MaxBufs  BY CommandLineTypes DEF HeldInv, PlaceOK
    <3>4. MappedBufs' = MappedBufs \union {1} /\ 1 \notin MappedBufs
      BY <2>1, <2>5, <3>2, <3>3 DEF MappedBufs, Buf
    <3>5. Protocol!Map(1)  BY <2>0, <3>1, <3>4 DEF Protocol!Map
    <3> QED  BY <1>4, <3>3, <3>5 DEF Keeps, Protocol!ProtocolNext
  <2> QED  BY <2>1, <2>2, <2>3, <2>4, <2>5
<1> QED  BY <1>2, <1>6, <1>7, <1>8

LEMMA SimReportKeeps ==
  ASSUME HeldInv, NestInv, HeldInv', SimReport
  PROVE  Keeps
<1>1. /\ at = "report" /\ at' = "done" /\ run' = run /\ ledger' = ledger
      /\ answer' = answer /\ exit' \in {0, 1}
  BY DEF SimReport, Leave
<1>2. SameView /\ SameAnswer  BY <1>1, SameLedger DEF SameAnswer
<1>3. NestInv'  BY <1>1, <1>2, NestOnLeaving
<1> QED  BY <1>2, <1>3, QuietKeeps

LEMMA StutterKeeps ==
  ASSUME NestInv, UNCHANGED hostVars
  PROVE  Keeps
<1>1. SameView /\ SameAnswer  BY DEF hostVars, SameView, SameAnswer
<1>2. NestInv'
  <2>1. /\ run' = run /\ at' = at /\ ledger' = ledger /\ todo' = todo /\ exit' = exit
        /\ answer' = answer
    BY DEF hostVars
  <2> QED  BY <2>1 DEF NestInv, InSim, Asked, NotAsked, RpcFailed, Unwritten, Res, Buf, ToSet
<1> QED  BY <1>1, <1>2, QuietKeeps

(* Both programs keep the protocol the skel relies on: one handle, started *)
(* before anything is mapped, one batch on a started session, stop before  *)
(* close, on every path.                                                   *)
THEOREM HostsKeepProtocol == Spec => ProtocolKept
<1>1. HostInit => Protocol!ProtocolInit
  <2> SUFFICES ASSUME HostInit PROVE Protocol!ProtocolInit
    OBVIOUS
  <2>1. ledger = {} /\ answer = NotAsked  BY DEF HostInit
  <2> QED  BY <2>1 DEF Protocol!ProtocolInit, SessionPhase, MappedBufs, Asked
<1>2. HeldInv /\ NestInv /\ HeldInv' /\ [Next]_hostVars => Keeps
  BY StutterKeeps, LoadingKeeps, OpenKeeps, QuietRunKeeps, AllocKeeps, InvokeKeeps,
     ReleaseKeeps, SimKeeps, SimReportKeeps DEF Next, HostNext, Ended
<1>3. Keeps => NestInv' /\ [Protocol!ProtocolNext]_(Protocol!protocolVars)
  BY DEF Keeps
<1> QED
  BY NestInit, HeldAlways, <1>1, <1>2, <1>3, PTL DEF Spec, ProtocolKept, Protocol!ProtocolSpec

-----------------------------------------------------------------------------
(* What an exit code means.                                                *)

AllLanes(kinds) == \A l \in Lanes : lanes[l] \in kinds

Truth ==
  /\ file # "old" => answer.magic /\ answer.status = StatusOk
  /\ exit = ExitOk =>
       /\ run.mode \notin {"usage", "unmapped", "simunmapped"}
       /\ ~InSim => Required \subseteq ptrs
       /\ run.mode # "caps" => answer.magic /\ answer.status = StatusOk
       /\ run.mode = "self" => OpResultOk /\ AllLanes({"computed", "computed_minus"})
       /\ run.mode = "batch" => answer.nops = run.nops /\ file \in {"whole", "lost"}
  /\ run.mode = "coherency" /\ exit \in {0, 6, 7} =>
       /\ exit = ExitOk <=> AllLanes({"computed", "computed_minus"})
       /\ exit = ExitCoherencyMiss <=> AllLanes({"untouched"})

(* Until the verdict no file is touched; past the driver's loading every   *)
(* required symbol is there; an answer of OK is a response, and not to a   *)
(* batch over buffers that were never registered.                          *)
TruthInv ==
  /\ run.mode = "usage" => at \in {"open", "done"}
  /\ at # "done" => file = "old"
  /\ at \in RunPlaces \ {"template"} /\ ~(at = "open" /\ k = 1) => Required \subseteq ptrs
  /\ lanes \in [Lanes -> LaneOutcomes]
  /\ at \in {"judge", "report"} /\ answer.status = StatusOk => answer.magic /\ ~SkipsRegister
  /\ at = "done" => Truth

LEMMA TruthInit == HostInit => TruthInv
<1> SUFFICES ASSUME HostInit PROVE TruthInv
  OBVIOUS
<1>1. /\ file = "old" /\ k = 1 /\ lanes = [l \in Lanes |-> "untouched"]
      /\ at \in {"template", "sim", "open"}
      /\ run.mode = "usage" => at = "open"
  BY DEF HostInit, InSim
<1>2. lanes \in [Lanes -> LaneOutcomes]  BY <1>1 DEF LaneOutcomes
<1>3. at # "done" /\ at \notin {"judge", "report"} /\ (at \in RunPlaces \ {"template"} => at = "open")
  BY <1>1 DEF RunPlaces
<1> QED  BY <1>1, <1>2, <1>3 DEF TruthInv

(* An exit that claims nothing.                                            *)
LEMMA ClaimsNothing ==
  ASSUME TruthInv, run' = run, at # "done", at' = "done", file' = file,
         answer' = answer, lanes' = lanes, exit' # 0,
         run.mode = "coherency" => exit' \notin {6, 7}
  PROVE  TruthInv'
<1>1. file' = "old" /\ exit' # ExitOk  BY DEF TruthInv, ExitOk
<1>2. (run.mode = "coherency" /\ exit \in {0, 6, 7})' => FALSE  OBVIOUS
<1>3. Truth'  BY <1>1, <1>2 DEF Truth, ExitOk
<1> QED  BY <1>1, <1>3 DEF TruthInv, RunPlaces

(* A step on the way that changes nothing the verdict is about.            *)
LEMMA TruthGoesOn ==
  ASSUME TruthInv, run' = run, at # "done", at' # "done", file' = file, lanes' = lanes,
         at' \notin {"judge", "report"}, run.mode = "usage" => at' = "open",
         at' \in RunPlaces \ {"template"} /\ ~(at' = "open" /\ k' = 1) => Required \subseteq ptrs'
  PROVE  TruthInv'
BY DEF TruthInv, RunPlaces, Required, Symbols, ToSet, LaneOutcomes

LEMMA DriverSymbols ==
  ASSUME NEW missing, missing \intersect Required = {}
  PROVE  Required \subseteq Resolved(missing)
<1> DEFINE lost == {s \in 1 .. Len(Symbols) : Symbols[s] \in missing \intersect Required}
           first == {t \in 1 .. Len(Symbols) : \A l \in lost : t < l}
<1>1. lost = {}  OBVIOUS
<1>2. first = 1 .. Len(Symbols)  BY <1>1
<1>3. Resolved(missing) = {Symbols[s] : s \in first} \ missing  BY DEF Resolved
<1>4. DOMAIN Symbols = 1 .. Len(Symbols)  BY DEF Symbols
<1>5. {Symbols[s] : s \in first} = ToSet(Symbols)
  <2> HIDE DEF first
  <2> QED  BY <1>2, <1>4 DEF ToSet
<1>6. Required \subseteq ToSet(Symbols)  BY DEF Required
<1> HIDE DEF first, lost
<1> QED  BY <1>3, <1>5, <1>6

LEMMA LoadDriverTruth ==
  ASSUME HeldInv, TruthInv, LoadDriver
  PROVE  TruthInv'
<1>0. /\ at = "open" /\ k = 1 /\ run' = run /\ file' = file /\ lanes' = lanes /\ answer' = answer
      /\ OpenSteps[1] = "driver" /\ run.mode # "usage"
  BY OpenTable DEF LoadDriver
<1>1. PICK loads \in [1 .. 2 -> BOOLEAN], a, b \in ToSet(Symbols) \union {"none"} :
        DrvInit(loads, {a, b})
  BY DEF LoadDriver
<1>2. CASE OpenFailed("driver")
  <2>1. at' = "done" /\ exit' = 2  BY <1>2 DEF OpenFailed, Leave, ExitSessionFailed
  <2> QED  BY <1>0, <2>1, ClaimsNothing
<1>3. CASE (loads[1] \/ loads[2]) /\ {a, b} \intersect Required = {}
  <2>1. Required \subseteq ptrs'  BY <1>1, <1>3, DriverSymbols DEF DrvInit
  <2>2. OpenStepDone  BY <1>1, <1>3 DEF DrvInit
  <2>3. at' \in {"open", "input", "alloc"}
    BY <1>0, <2>2 DEF OpenStepDone, GoTo
  <2> QED  BY <1>0, <2>1, <2>3, TruthGoesOn
<1> QED  BY <1>1, <1>2, <1>3 DEF DrvInit

LEMMA OpenStepTruth ==
  ASSUME HeldInv, TruthInv, OpenStep
  PROVE  TruthInv'
<1>0. /\ at = "open" /\ k > 1 /\ run' = run /\ file' = file /\ lanes' = lanes /\ answer' = answer
      /\ ptrs' = ptrs /\ Required \subseteq ptrs /\ ~InSim /\ k \in 1 .. 9 /\ run.mode # "usage"
  BY DEF OpenStep, TruthInv, HeldInv, PlaceOK, RunPlaces
<1>1. OpenFailed(OpenSteps[k]) \/ OpenStepDone  BY DEF OpenStep
<1>2. CASE OpenFailed(OpenSteps[k])
  <2>1. at' = "done" /\ exit' = 2  BY <1>2 DEF OpenFailed, Leave, ExitSessionFailed
  <2> QED  BY <1>0, <2>1, ClaimsNothing
<1>3. CASE OpenStepDone /\ at' # "done"
  <2>1. at' \in {"open", "input", "alloc"}
    BY <1>3 DEF OpenStepDone, Leave, GoTo
  <2> QED  BY <1>0, <2>1, TruthGoesOn
<1>4. CASE OpenStepDone /\ at' = "done"
  <2>1. run.mode = "caps" /\ exit' = 0
    BY <1>4 DEF OpenStepDone, Leave, GoTo, ExitOk
  <2>2. file' = "old" /\ ~InSim' /\ Required' \subseteq ptrs'
    BY <1>0, ClashKept DEF TruthInv, Required, Symbols, ToSet
  <2>3. Truth'  BY <1>0, <2>1, <2>2 DEF Truth
  <2>4. (lanes \in [Lanes -> LaneOutcomes])'
    BY <1>0 DEF TruthInv, LaneOutcomes
  <2> QED  BY <1>4, <2>2, <2>3, <2>4 DEF TruthInv, RunPlaces
<1> QED  BY <1>1, <1>2, <1>3, <1>4

LEMMA PlainTruth ==
  ASSUME HeldInv, TruthInv,
         \/ Usage \/ ReadTemplate \/ ReadInput \/ AllocStep \/ StageBuffer \/ BuildBatch
         \/ AllocResponse
  PROVE  TruthInv'
<1>0. /\ run' = run /\ file' = file /\ lanes' = lanes /\ answer' = answer /\ ptrs' = ptrs
      /\ at # "done" /\ at \in RunPlaces
  BY DEF Usage, ReadTemplate, ReadInput, AllocStep, StageBuffer, BuildBatch, AllocResponse,
         RunPlaces
<1>1. \/ at' = "done" /\ exit' \in {1, 2, Killed}
      \/ at' = "open" /\ k' = 1
      \/ at' \in {"alloc", "stage", "build", "response", "invoke"} /\ at # "template"
         /\ at # "open"
  <2>1. CASE Usage  BY <2>1 DEF Usage, Leave, ExitUsage
  <2>2. CASE ReadTemplate  BY <2>2 DEF ReadTemplate, Leave, GoTo, ExitUsage
  <2>3. CASE ReadInput  BY <2>3 DEF ReadInput, Leave, GoTo, Die, ExitUsage
  <2>4. CASE AllocStep
    BY <2>4 DEF AllocStep, AllocStepDone, CleanUp, Leave, GoTo, ExitUsage, ExitSessionFailed
  <2>5. CASE StageBuffer  BY <2>5 DEF StageBuffer, CleanUp, Leave, GoTo, ExitUsage
  <2>6. CASE BuildBatch  BY <2>6 DEF BuildBatch, CleanUp, Leave, GoTo, ExitSessionFailed
  <2>7. CASE AllocResponse  BY <2>7 DEF AllocResponse, GoTo
  <2> QED  BY <2>1, <2>2, <2>3, <2>4, <2>5, <2>6, <2>7
<1>2. CASE at' = "done" /\ exit' \in {1, 2, Killed}
  BY <1>0, <1>2, ClaimsNothing DEF Killed
<1>3. CASE at' = "open" /\ k' = 1
  BY <1>0, <1>3, TruthGoesOn
<1>4. CASE at' \in {"alloc", "stage", "build", "response", "invoke"} /\ at # "template"
           /\ at # "open"
  <2>1. Required \subseteq ptrs' /\ run.mode # "usage"  BY <1>0, <1>4 DEF TruthInv
  <2> QED  BY <1>0, <1>4, <2>1, TruthGoesOn
<1> QED  BY <1>1, <1>2, <1>3, <1>4

LEMMA LaneBitsTable ==
  /\ Classify(LaneBits("computed")) = "zero"
  /\ Classify(LaneBits("computed_minus")) = "zero"
  /\ Classify(LaneBits("untouched")) = "sentinel"
  /\ Classify(LaneBits("garbled")) = "other"
BY DEF Classify, LaneBits, SentinelBits

(* The three verdicts of the coherency check.                              *)
LEMMA CoherencyVerdict ==
  ASSUME lanes \in [Lanes -> LaneOutcomes]
  PROVE  /\ CoherencyCode = ExitOk <=> AllLanes({"computed", "computed_minus"})
         /\ CoherencyCode = ExitCoherencyMiss <=> AllLanes({"untouched"})
<1> DEFINE seen == {Classify(LaneBits(lanes[l])) : l \in Lanes}
<1>0. Lanes # {}  BY HostAssumption
<1>1. \A l \in Lanes : /\ Classify(LaneBits(lanes[l])) = "zero" <=> lanes[l] \in {"computed", "computed_minus"}
                       /\ Classify(LaneBits(lanes[l])) = "sentinel" <=> lanes[l] = "untouched"
  BY LaneBitsTable DEF LaneOutcomes
<1>2. seen = {"zero"} <=> AllLanes({"computed", "computed_minus"})
  BY <1>0, <1>1 DEF AllLanes
<1>3. seen = {"sentinel"} <=> AllLanes({"untouched"})
  BY <1>0, <1>1 DEF AllLanes
<1> HIDE DEF seen
<1>4. CoherencyCode = CASE seen = {"zero"} -> ExitOk [] seen = {"sentinel"} -> ExitCoherencyMiss
                        [] OTHER -> ExitCoherencyGarbled
  BY DEF CoherencyCode, seen
<1>5. {"zero"} # {"sentinel"}  OBVIOUS
<1>6. CASE seen = {"zero"}
  BY <1>2, <1>3, <1>4, <1>5, <1>6 DEF ExitOk, ExitCoherencyMiss
<1>7. CASE seen = {"sentinel"}
  BY <1>2, <1>3, <1>4, <1>5, <1>7 DEF ExitOk, ExitCoherencyMiss
<1>8. CASE seen # {"zero"} /\ seen # {"sentinel"}
  BY <1>2, <1>3, <1>4, <1>8 DEF ExitOk, ExitCoherencyMiss, ExitCoherencyGarbled
<1> QED  BY <1>6, <1>7, <1>8

(* An answer that says OK is a whole response to registered buffers.       *)
LEMMA OkAnswers ==
  /\ \A a \in Answers : a.status = StatusOk => a.magic = TRUE /\ Mapped = 1 .. NBufs
  /\ \A a \in SimAnswers : a.status = StatusOk => a.magic = TRUE /\ Mapped = 1 .. NBufs
<1> DEFINE Full == [rpc : {TRUE}, magic : {TRUE}, status : {StatusOk, StatusFailed},
                    nops : 0 .. NOps, bad : BOOLEAN]
<1>1. RpcFailed.status = 0 /\ Unwritten.status = 0 /\ StatusOk # 0
      /\ StatusUnmapped # StatusOk /\ StatusFailed # StatusOk
  BY DEF RpcFailed, Unwritten, StatusOk, StatusUnmapped, StatusFailed
<1>2. \A s : [Unwritten EXCEPT !.magic = TRUE, !.status = s].status = s
  BY DEF Unwritten
<1>3. \A a \in Full : a.magic = TRUE  OBVIOUS
<1>4. \A a \in Answers : a = RpcFailed \/ a = Unwritten \/ (a \in Full /\ Mapped = 1 .. NBufs)
           \/ a = [Unwritten EXCEPT !.magic = TRUE, !.status = StatusUnmapped]
  <2> HIDE DEF Full
  <2>1. Answers = {RpcFailed, Unwritten} \union
                    IF Mapped = 1 .. NBufs THEN Full
                    ELSE {[Unwritten EXCEPT !.magic = TRUE, !.status = StatusUnmapped]}
    BY DEF Answers, Full
  <2> QED  BY <2>1
<1> HIDE DEF Full
<1>5. \A a \in Answers : a.status = StatusOk => a.magic = TRUE /\ Mapped = 1 .. NBufs
  BY <1>1, <1>2, <1>3, <1>4
<1>6. \A a \in SimAnswers : a \in Answers \/ a = [Unwritten EXCEPT !.magic = TRUE, !.status = StatusFailed]
  BY DEF SimAnswers
<1> QED  BY <1>1, <1>2, <1>5, <1>6

LEMMA MappedMeansRegistered ==
  ASSUME HeldInv, at \in {"invoke", "sim"}, Mapped = 1 .. NBufs
  PROVE  ~SkipsRegister
<1>1. NBufs \in 1 .. MaxBufs /\ 1 \in 1 .. MaxBufs /\ MaxBufs \in Nat
  BY CommandLineTypes DEF HeldInv, PlaceOK
<1>2. 1 \in Mapped  BY <1>1
<1>3. Buf("dsp", 1) \in ledger  BY <1>2 DEF Mapped
<1>4. CASE at = "invoke"
  <2>1. HoldsBuf("dsp", 1)
    BY <1>1, <1>3, <1>4 DEF HeldInv, LedgerExact, RunPlaces, BufKinds
  <2> QED  BY <1>4, <2>1 DEF HoldsBuf
<1>5. CASE at = "sim"
  BY <1>3, <1>5 DEF HeldInv, SimLedgerExact, Res, Buf
<1> QED  BY <1>4, <1>5

LEMMA InvokeTruth ==
  ASSUME HeldInv, TruthInv, Invoke
  PROVE  TruthInv'
<1>0. /\ at = "invoke" /\ run' = run /\ file' = file /\ file = "old" /\ ptrs' = ptrs
      /\ Required \subseteq ptrs /\ lanes \in [Lanes -> LaneOutcomes]
  BY DEF Invoke, TruthInv, RunPlaces
<1>1. CASE Die /\ answer' = answer /\ lanes' = lanes
  BY <1>0, <1>1, ClaimsNothing DEF Die, Killed
<1>2. CASE /\ answer' \in Answers \union {RpcFailed} /\ at' = "judge"
           /\ lanes' = lanes \/ lanes' \in [Lanes -> LaneOutcomes]
  <2>1. RpcFailed.status # StatusOk  BY DEF RpcFailed, Unwritten, StatusOk
  <2>2. answer'.status = StatusOk => answer'.magic /\ ~SkipsRegister
    BY <1>0, <1>2, <2>1, OkAnswers, MappedMeansRegistered
  <2>3. SkipsRegister' = SkipsRegister  BY <1>0, ClashKept
  <2>4. lanes' \in [Lanes -> LaneOutcomes]  BY <1>0, <1>2
  <2>5. Required' = Required /\ LaneOutcomes' = LaneOutcomes
    BY DEF Required, Symbols, ToSet, LaneOutcomes
  <2> QED  BY <1>0, <1>2, <2>2, <2>3, <2>4, <2>5 DEF TruthInv, StatusOk
<1> QED  BY <1>1, <1>2 DEF Invoke

LEMMA JudgeTruth ==
  ASSUME HeldInv, TruthInv, Judge
  PROVE  TruthInv'
<1>0. /\ at = "judge" /\ run' = run /\ answer' = answer /\ ptrs' = ptrs /\ lanes' = lanes
      /\ file = "old" /\ Required \subseteq ptrs /\ lanes \in [Lanes -> LaneOutcomes]
      /\ answer.status = StatusOk => answer.magic /\ ~SkipsRegister
      /\ ~InSim /\ run.mode # "usage" /\ InSim' = InSim /\ SkipsRegister' = SkipsRegister
      /\ Required' = Required /\ LaneOutcomes' = LaneOutcomes
  <2>1. /\ at = "judge" /\ run' = run /\ answer' = answer /\ ptrs' = ptrs /\ lanes' = lanes
    BY DEF Judge
  <2>2. /\ file = "old" /\ Required \subseteq ptrs /\ lanes \in [Lanes -> LaneOutcomes]
        /\ answer.status = StatusOk => answer.magic /\ ~SkipsRegister
    BY <2>1 DEF TruthInv, RunPlaces
  <2>3. ~InSim /\ run.mode # "usage"  BY <2>1 DEF HeldInv, PlaceOK, RunPlaces, TruthInv
  <2>4. /\ InSim' = InSim /\ SkipsRegister' = SkipsRegister
        /\ Required' = Required /\ LaneOutcomes' = LaneOutcomes
    BY <2>1, ClashKept DEF Required, Symbols, ToSet, LaneOutcomes
  <2> QED  BY <2>1, <2>2, <2>3, <2>4
<1>1. at' = "done"
  BY JudgedCode DEF CleanUp, Leave
<1>2. CASE ~ResponseIsValid
  <2>1. exit' = 3 /\ file' = file
    BY <1>2 DEF Judge, CleanUp, Leave, ExitNoResponse
  <2> QED  BY <1>0, <1>1, <2>1, ClaimsNothing
<1>3. CASE ResponseIsValid /\ answer.status # StatusOk
  <2>1. exit' = 4 /\ file' = file
    BY <1>3 DEF Judge, CleanUp, Leave, ExitOpFailed
  <2> QED  BY <1>0, <1>1, <2>1, ClaimsNothing
<1>4. CASE ResponseIsValid /\ answer.status = StatusOk /\ run.mode = "batch"
  <2>1. WriteOut  BY <1>4 DEF Judge
  <2>2. \/ file' \in {"old", "partial"} /\ exit' = 1
        \/ file' \in {"whole", "lost"} /\ exit' = BatchCode
    BY <2>1 DEF WriteOut, CleanUp, Leave, ExitUsage
  <2>3. exit' = 0 => answer.nops = run.nops /\ file' \in {"whole", "lost"}
    BY <2>2 DEF BatchCode, ExitOk, ExitOpFailed
  <2>4. Truth'
    BY <1>0, <1>4, <2>3 DEF Truth, ExitOk, StatusOk
  <2> QED  BY <1>0, <1>1, <2>4 DEF TruthInv, RunPlaces
<1>5. CASE ResponseIsValid /\ answer.status = StatusOk /\ run.mode # "batch"
  <2>1. /\ file' = file
        /\ CleanUp(CASE ~OpResultOk -> ExitOpFailed
                     [] OpResultOk /\ run.mode = "coherency" -> CoherencyCode
                     [] OTHER -> SelfTestCode, << >>)
    BY <1>5 DEF Judge
  <2>2. exit' = CASE ~OpResultOk -> ExitOpFailed
                  [] OpResultOk /\ run.mode = "coherency" -> CoherencyCode
                  [] OTHER -> SelfTestCode
    BY <2>1 DEF CleanUp, Leave
  <2>3. CASE ~OpResultOk
    <3>1. exit' = 4  BY <2>2, <2>3 DEF ExitOpFailed
    <3> QED  BY <1>0, <1>1, <2>1, <3>1, ClaimsNothing
  <2>4. OpResultOk' <=> OpResultOk  BY <1>0 DEF OpResultOk
  <2>5. \A kinds : AllLanes(kinds)' <=> AllLanes(kinds)  BY <1>0 DEF AllLanes
  <2>6. run.mode \notin {"unmapped", "simunmapped"}  BY <1>0, <1>5 DEF SkipsRegister
  <2>7. CASE OpResultOk /\ run.mode = "coherency"
    <3>1. exit' = CoherencyCode  BY <2>2, <2>7
    <3>2. /\ exit' = ExitOk <=> AllLanes({"computed", "computed_minus"})
          /\ exit' = ExitCoherencyMiss <=> AllLanes({"untouched"})
      BY <1>0, <3>1, CoherencyVerdict
    <3>3. Truth'
      BY <1>0, <1>5, <2>1, <2>5, <2>7, <3>2
      DEF Truth, ExitOk, ExitCoherencyMiss, StatusOk
    <3> QED  BY <1>0, <1>1, <3>3 DEF TruthInv, RunPlaces
  <2>8. CASE OpResultOk /\ run.mode # "coherency"
    <3>1. exit' = SelfTestCode  BY <2>2, <2>8
    <3>2. exit' = ExitOk => AllLanes({"computed", "computed_minus"})
      BY <3>1 DEF SelfTestCode, AllLanes, ExitOk, ExitMismatch
    <3>3. Truth'
      BY <1>0, <1>5, <2>1, <2>4, <2>5, <2>6, <2>8, <3>2 DEF Truth, ExitOk, StatusOk
    <3> QED  BY <1>0, <1>1, <3>3 DEF TruthInv, RunPlaces
  <2> QED  BY <2>3, <2>7, <2>8
<1> QED  BY <1>2, <1>3, <1>4, <1>5

(* Past the verdict only the releases go on.                               *)
LEMMA TruthStays ==
  ASSUME TruthInv, run' = run, at' = at, k' = k, file' = file, answer' = answer,
         lanes' = lanes, ptrs' = ptrs, exit' = exit
  PROVE  TruthInv'
<1>1. /\ InSim' = InSim /\ SkipsRegister' = SkipsRegister
      /\ Required' = Required /\ LaneOutcomes' = LaneOutcomes /\ (OpResultOk' <=> OpResultOk)
      /\ \A kinds : AllLanes(kinds)' <=> AllLanes(kinds)
  BY ClashKept DEF Required, Symbols, ToSet, LaneOutcomes, OpResultOk, AllLanes
<1>2. Truth' <=> Truth  BY <1>1 DEF Truth, StatusOk, ExitOk, ExitCoherencyMiss
<1> QED  BY <1>1, <1>2 DEF TruthInv, StatusOk

LEMMA SimTruth ==
  ASSUME HeldInv, TruthInv, SimStep \/ SimReport
  PROVE  TruthInv'
<1>0. /\ run' = run /\ ptrs' = ptrs /\ lanes' = lanes /\ InSim /\ at # "done" /\ file = "old"
      /\ run.mode \notin {"coherency", "usage", "self", "batch"}
      /\ InSim' = InSim /\ SkipsRegister' = SkipsRegister /\ LaneOutcomes' = LaneOutcomes
      /\ lanes \in [Lanes -> LaneOutcomes] /\ k \in 1 .. 9
  BY ClashKept
  DEF SimStep, SimReport, HeldInv, PlaceOK, TruthInv, InSim, LaneOutcomes
<1>1. CASE SimStep
  <2>1. \/ at' = "sim"
        \/ at' = "report" /\ answer' \in SimAnswers
        \/ at' = "done" /\ exit' = k + 1
           /\ (answer' = RpcFailed \/ answer' = answer)
    <3>1. PICK ok \in SimOutcomes(SimSteps[k]) :
             /\ CASE ok /\ SimSteps[k] # "invoke" ->
                       GoTo("sim", k + 1, 1) /\ UNCHANGED <<todo, exit, answer>>
                  [] ok /\ SimSteps[k] = "invoke" ->
                       /\ GoTo("report", 1, 1)
                       /\ answer' \in SimAnswers
                       /\ UNCHANGED <<todo, exit>>
                  [] ~ok ->
                       /\ Leave(k + 1, SimUnwind(SimSteps[k]))
                       /\ answer' = IF SimSteps[k] = "invoke" THEN RpcFailed ELSE answer
                       /\ UNCHANGED <<k, i>>
      BY <1>1 DEF SimStep
    <3>2. ok \in BOOLEAN  BY DEF SimOutcomes
    <3>3. CASE ok /\ SimSteps[k] # "invoke"  BY <3>1, <3>3 DEF GoTo
    <3>4. CASE ok /\ SimSteps[k] = "invoke"  BY <3>1, <3>4 DEF GoTo
    <3>5. CASE ~ok  BY <3>1, <3>5 DEF Leave
    <3> QED  BY <3>2, <3>3, <3>4, <3>5
  <2>2. file' = "old" /\ at = "sim"  BY <1>0, <1>1 DEF SimStep
  <2>3. CASE at' = "sim"
    BY <1>0, <2>2, <2>3 DEF TruthInv, RunPlaces
  <2>4. CASE at' = "report" /\ answer' \in SimAnswers
    <3>1. answer'.status = StatusOk => answer'.magic /\ ~SkipsRegister
      BY <2>2, <2>4, OkAnswers, MappedMeansRegistered
    <3> QED  BY <1>0, <2>2, <2>4, <3>1 DEF TruthInv, RunPlaces, StatusOk
  <2>5. CASE at' = "done" /\ exit' = k + 1
    <3>1. exit' # 0  BY <1>0, <2>5
    <3>2. Truth'  BY <1>0, <2>2, <2>5, <3>1 DEF Truth, ExitOk
    <3> QED  BY <1>0, <2>5, <3>2 DEF TruthInv, RunPlaces
  <2> QED  BY <2>1, <2>3, <2>4, <2>5
<1>2. CASE SimReport
  <2>1. /\ at = "report" /\ at' = "done" /\ answer' = answer
        /\ \/ answer.status = StatusOk /\ exit' = 0
           \/ answer.status # StatusOk /\ exit' = 1 /\ file' = file
    BY <1>2 DEF SimReport, Leave
  <2>2. answer.status = StatusOk => answer.magic /\ ~SkipsRegister
    BY <2>1 DEF TruthInv
  <2>3. answer.status = StatusOk => run.mode \notin {"unmapped", "simunmapped"}
    BY <2>2 DEF SkipsRegister
  <2>4. Truth'
    BY <1>0, <2>1, <2>2, <2>3 DEF Truth, ExitOk, StatusOk
  <2> QED  BY <1>0, <2>1, <2>4 DEF TruthInv, RunPlaces
<1> QED  BY <1>1, <1>2

(* What a run's answer, lanes and file say is known at every place of it. *)
THEOREM TruthAlways == Spec => []TruthInv
<1>1. HeldInv /\ TruthInv /\ [Next]_hostVars => TruthInv'
  <2>1. Release => run' = run /\ at' = at /\ k' = k /\ file' = file /\ answer' = answer
                     /\ lanes' = lanes /\ ptrs' = ptrs /\ exit' = exit
    BY DEF Release
  <2>2. UNCHANGED hostVars => run' = run /\ at' = at /\ k' = k /\ file' = file
                     /\ answer' = answer /\ lanes' = lanes /\ ptrs' = ptrs /\ exit' = exit
    BY DEF hostVars
  <2> QED
    BY <2>1, <2>2, TruthStays, PlainTruth, LoadDriverTruth, OpenStepTruth, InvokeTruth,
       JudgeTruth, SimTruth DEF Next, HostNext, Ended
<1> QED  BY TruthInit, HeldAlways, <1>1, PTL DEF Spec

(* Exit 0 is only for a run that did all it was asked, no output file is   *)
(* touched before a response of OK, and the coherency check's verdicts are *)
(* never confused.                                                         *)
THEOREM ExitMeansIt == Spec => []ExitTruthful
<1>1. TruthInv => ExitTruthful
  <2> SUFFICES ASSUME TruthInv PROVE ExitTruthful
    OBVIOUS
  <2>1. file # "old" => at = "done"  BY DEF TruthInv
  <2>2. Done => at = "done"  BY DEF Done
  <2>3. at = "done" => Truth  BY DEF TruthInv
  <2> QED  BY <2>1, <2>2, <2>3 DEF ExitTruthful, Truth, AllLanes
<1> QED  BY TruthAlways, <1>1, PTL

-----------------------------------------------------------------------------
(* Where the bytes of --in go, and the kinds of what is left of the state. *)

Typed ==
  /\ ptrs \subseteq ToSet(Symbols)
  /\ staged \in [1 .. MaxBufs -> 0 .. IntMax]
  /\ in_off = SumFunction(staged)
  /\ in_off \in Nat
  /\ in_off > 0 => in_off <= run.in_len
  /\ file \in {"old", "partial", "whole", "lost"}
  /\ exit \in -2 .. 9

(* Every input has its bytes, the last buffer all of its own or none, and  *)
(* nothing of --in is left.                                                *)
AllStaged ==
  /\ \A b \in 1 .. NBufs - 1 : staged[b] = run.sizes[b]
  /\ staged[NBufs] \in {0, run.sizes[NBufs]}
  /\ in_off = run.in_len

(* What has been staged at each place of a batch run.                      *)
StagedSoFar ==
  run.mode = "batch" =>
    /\ at # "build"
    /\ at \in {"template", "open", "input"} => \A b \in 1 .. MaxBufs : staged[b] = 0
    /\ at \in {"alloc", "stage"} =>
         /\ \A b \in 1 .. MaxBufs : staged[b] = IF b < i THEN run.sizes[b] ELSE 0
         /\ run.in_len \in Nat
    /\ at = "stage" \/ (at = "alloc" /\ k > 1) => run.sizes[i] \in 1 .. IntMax
    /\ at \in {"response", "invoke", "judge"} \/ answer # NotAsked => AllStaged

StageInv ==
  /\ Typed
  /\ StagedSoFar
  /\ at \notin {"judge", "report", "done"} => answer = NotAsked

LEMMA StageInit == HostInit => StageInv
<1> SUFFICES ASSUME HostInit PROVE StageInv
  OBVIOUS
<1>1. /\ staged = [b \in 1 .. MaxBufs |-> 0] /\ in_off = 0 /\ ptrs = {} /\ file = "old"
      /\ exit = -1 /\ answer = NotAsked /\ at \in {"template", "sim", "open"}
  BY DEF HostInit, Running
<1>2. IsFiniteSet(1 .. MaxBufs) /\ IntMax \in Nat
  <2>1. MaxBufs \in Nat /\ IntMax \in Nat  BY HostAssumption
  <2> QED  BY <2>1, FS_Interval
<1>3. SumFunction(staged) = 0  BY <1>1, <1>2, SumOfNothing
<1>4. staged \in [1 .. MaxBufs -> 0 .. IntMax]  BY <1>1, <1>2
<1>5. Typed  BY <1>1, <1>3, <1>4 DEF Typed
<1>6. StagedSoFar  BY <1>1 DEF StagedSoFar
<1> QED  BY <1>1, <1>5, <1>6 DEF StageInv

(* A step that stages nothing.                                             *)
StagesNothing ==
  /\ run' = run /\ staged' = staged /\ in_off' = in_off
  /\ ptrs' \subseteq ToSet(Symbols)
  /\ file' \in {"old", "partial", "whole", "lost"}
  /\ exit' \in -2 .. 9

LEMMA TypedStays == Typed /\ StagesNothing => Typed'
<1> SUFFICES ASSUME Typed, StagesNothing PROVE Typed'
  OBVIOUS
<1>1. /\ staged' \in [1 .. MaxBufs -> 0 .. IntMax] /\ in_off' \in Nat
      /\ in_off' > 0 => in_off' <= run'.in_len
      /\ ptrs' \subseteq ToSet(Symbols)'
  BY DEF Typed, StagesNothing, Symbols, ToSet
<1>2. in_off' = SumFunction(staged)'
  <2>1. in_off = SumFunction(staged)  BY DEF Typed
  <2>2. SumFunction(staged)' = SumFunction(staged)  BY DEF StagesNothing
  <2> QED  BY <2>1, <2>2 DEF StagesNothing
<1> QED  BY <1>1, <1>2 DEF Typed, StagesNothing

LEMMA AllStagedStays ==
  ASSUME run' = run, staged' = staged, in_off' = in_off
  PROVE  AllStaged' <=> AllStaged
BY ClashKept DEF AllStaged

(* ... and leaves, or goes on to where what is staged is what it was.      *)
LEMMA StageLeaving ==
  ASSUME StageInv, StagesNothing, at' = "done",
         run.mode = "batch" /\ answer' # NotAsked => AllStaged
  PROVE  StageInv'
<1>1. AllStaged' <=> AllStaged  BY AllStagedStays DEF StagesNothing
<1>2. Typed'  BY TypedStays DEF StageInv
<1>3. StagedSoFar'
  BY <1>1 DEF StagedSoFar, StagesNothing, NotAsked, RpcFailed, Unwritten
<1> QED  BY <1>2, <1>3 DEF StageInv

LEMMA StageOutsideBatch ==
  ASSUME StageInv, StagesNothing, run.mode # "batch",
         at' \notin {"judge", "report", "done"} => answer' = NotAsked
  PROVE  StageInv'
<1>1. Typed'  BY TypedStays DEF StageInv
<1>2. StagedSoFar'  BY DEF StagedSoFar, StagesNothing
<1> QED  BY <1>1, <1>2 DEF StageInv, NotAsked, RpcFailed, Unwritten

(* The driver's entry points are among the symbols it looks up.            *)
LEMMA ResolvedSymbols ==
  ASSUME NEW missing
  PROVE  Resolved(missing) \subseteq ToSet(Symbols)
<1>1. DOMAIN Symbols = 1 .. Len(Symbols)  BY DEF Symbols
<1> DEFINE lost == {s \in 1 .. Len(Symbols) : Symbols[s] \in missing \intersect Required}
           first == {t \in 1 .. Len(Symbols) : \A l \in lost : t < l}
<1>2. Resolved(missing) = {Symbols[s] : s \in first} \ missing  BY DEF Resolved
<1>3. first \subseteq DOMAIN Symbols  BY <1>1
<1> HIDE DEF first
<1> QED  BY <1>2, <1>3 DEF ToSet

(* hexlib_open's steps.                                                    *)
LEMMA OpeningStages ==
  ASSUME HeldInv, StageInv, LoadDriver \/ OpenStep
  PROVE  StageInv'
<1>0. /\ at = "open" /\ run' = run /\ staged' = staged /\ in_off' = in_off /\ answer' = answer
      /\ answer = NotAsked /\ file' = file
  BY DEF LoadDriver, OpenStep, StageInv
<1>1. ptrs' \subseteq ToSet(Symbols)
  <2>1. CASE LoadDriver
    <3>1. \E m : ptrs' = Resolved(m) \/ ptrs' = {}  BY <2>1 DEF LoadDriver, DrvInit
    <3> QED  BY <3>1, ResolvedSymbols
  <2>2. CASE OpenStep  BY <2>2 DEF OpenStep, StageInv, Typed
  <2> QED  BY <2>1, <2>2
<1>2. OpenStepDone \/ \E step : OpenFailed(step)
  BY DEF LoadDriver, DrvInit, OpenStep
<1>3. \/ at' = "done" /\ exit' \in {0, 2}
      \/ at' = "open" /\ exit' = exit
      \/ at' = "input" /\ exit' = exit
      \/ at' = "alloc" /\ k' = 1 /\ i' = 1 /\ run.mode # "batch" /\ exit' = exit
  <2>1. k \in 1 .. 9 /\ Len(OpenSteps) = 9  BY OpenTable DEF HeldInv, PlaceOK
  <2> QED
    BY <1>2, <2>1 DEF OpenStepDone, OpenFailed, Leave, GoTo, ExitOk, ExitSessionFailed
<1>4. StagesNothing
  BY <1>0, <1>1, <1>3 DEF StagesNothing, StageInv, Typed
<1>5. CASE at' = "done"
  BY <1>0, <1>4, <1>5, StageLeaving
<1>6. CASE run.mode # "batch"
  BY <1>0, <1>4, <1>6, StageOutsideBatch
<1>7. CASE run.mode = "batch" /\ at' \in {"open", "input"}
  <2>1. Typed'  BY <1>4, TypedStays DEF StageInv
  <2>2. StagedSoFar'
    BY <1>0, <1>4, <1>7 DEF StageInv, StagedSoFar, NotAsked, RpcFailed, Unwritten
  <2> QED  BY <1>0, <1>7, <2>1, <2>2 DEF StageInv, NotAsked, RpcFailed, Unwritten
<1> QED  BY <1>3, <1>5, <1>6, <1>7

LEMMA ReadingStages ==
  ASSUME HeldInv, StageInv, Usage \/ ReadTemplate \/ ReadInput
  PROVE  StageInv'
<1>0. /\ at \in {"open", "template", "input"} /\ run' = run /\ staged' = staged
      /\ in_off' = in_off /\ answer' = answer /\ answer = NotAsked /\ file' = file /\ ptrs' = ptrs
      /\ run \in CommandLines
  BY DEF Usage, ReadTemplate, ReadInput, StageInv, HeldInv, PlaceOK
<1>1. \/ at' = "done" /\ exit' \in {1, -2}
      \/ at' = "open" /\ exit' = exit
      \/ at' = "alloc" /\ k' = 1 /\ i' = 1 /\ run.in_len # -1 /\ exit' = exit
  <2>1. CASE Usage  BY <2>1 DEF Usage, Leave, ExitUsage
  <2>2. CASE ReadTemplate  BY <2>2 DEF ReadTemplate, Leave, GoTo, ExitUsage
  <2>3. CASE ReadInput  BY <2>3 DEF ReadInput, Leave, GoTo, Die, ExitUsage, Killed
  <2> QED  BY <2>1, <2>2, <2>3
<1>2. StagesNothing
  BY <1>0, <1>1 DEF StagesNothing, StageInv, Typed
<1>3. CASE at' = "done"  BY <1>0, <1>2, <1>3, StageLeaving
<1>4. CASE run.mode # "batch"  BY <1>0, <1>2, <1>4, StageOutsideBatch
<1>5. CASE run.mode = "batch" /\ at' \in {"open", "alloc"}
  <2>1. Typed'  BY <1>2, TypedStays DEF StageInv
  <2>2. run.in_len \in Nat \union {-1}  BY <1>0, CommandLineTypes DEF CommandLine
  <2>3. \A b \in 1 .. MaxBufs : staged[b] = 0
    BY <1>0, <1>5 DEF StageInv, StagedSoFar
  <2>4. \A b \in 1 .. MaxBufs : ~(b < 1)  BY HostAssumption
  <2>5. StagedSoFar'
    BY <1>0, <1>1, <1>5, <2>2, <2>3, <2>4
    DEF StageInv, StagedSoFar, NotAsked, RpcFailed, Unwritten
  <2> QED  BY <1>0, <1>5, <2>1, <2>5 DEF StageInv, NotAsked, RpcFailed, Unwritten
<1> QED  BY <1>1, <1>3, <1>4, <1>5

(* hexlib_alloc's steps: past its first, the buffer's size has been found  *)
(* to be one it can have.                                                  *)
LEMMA AllocStages ==
  ASSUME HeldInv, StageInv, AllocStep
  PROVE  StageInv'
<1> DEFINE last == IF run.mode = "unmapped" THEN 4 ELSE 6
<1>0. /\ at = "alloc" /\ run' = run /\ staged' = staged
      /\ in_off' = in_off /\ answer' = answer /\ answer = NotAsked /\ file' = file /\ ptrs' = ptrs
      /\ k \in 1 .. last /\ i \in 1 .. NBufs /\ Len(AllocSteps) = last
  BY AllocTable DEF AllocStep, StageInv, HeldInv, PlaceOK
<1>1. \/ at' = "done" /\ exit' \in {1, 2}
      \/ at' = "alloc" /\ k' = k + 1 /\ i' = i /\ exit' = exit
         /\ (k = 1 /\ run.mode = "batch" => run.sizes[i] \in 1 .. IntMax)
      \/ at' = "stage" /\ i' = i /\ exit' = exit /\ k > 1 /\ run.mode = "batch"
      \/ at' \in {"alloc", "build"} /\ exit' = exit /\ run.mode # "batch"
  <2>1. PICK ok \in AllocOutcomes(AllocSteps[k]) :
          IF ok THEN AllocStepDone /\ exit' = exit
          ELSE CleanUp(IF run.mode = "batch" THEN ExitUsage ELSE ExitSessionFailed,
                       AllocUnwind(AllocSteps[k], i))
    BY DEF AllocStep
  <2>2. CASE ~ok
    BY <2>1, <2>2 DEF CleanUp, Leave, ExitUsage, ExitSessionFailed
  <2>3. CASE ok /\ k < last
    <3>1. AllocStepDone /\ exit' = exit  BY <2>1, <2>3
    <3>2. at' = "alloc" /\ k' = k + 1 /\ i' = i
      BY <1>0, <2>3, <3>1 DEF AllocStepDone, GoTo
    <3>3. k = 1 /\ run.mode = "batch" => run.sizes[i] \in 1 .. IntMax
      <4> SUFFICES ASSUME k = 1, run.mode = "batch" PROVE run.sizes[i] \in 1 .. IntMax
        OBVIOUS
      <4>1. AllocSteps[k] = "size"  BY AllocTable
      <4>2. ok \in {run.sizes[i] \in 1 .. IntMax}  BY <2>1, <4>1 DEF AllocOutcomes
      <4> QED  BY <2>3, <4>2
    <3> QED  BY <3>1, <3>2, <3>3
  <2>4. CASE ok /\ ~(k < last)
    <3>1. k = last /\ k > 1 /\ AllocStepDone /\ exit' = exit  BY <1>0, <2>1, <2>4
    <3> HIDE DEF last
    <3> QED  BY <1>0, <2>4, <3>1 DEF AllocStepDone, GoTo
  <2> QED  BY <2>2, <2>3, <2>4
<1>2. StagesNothing
  BY <1>0, <1>1 DEF StagesNothing, StageInv, Typed
<1>3. CASE at' = "done"  BY <1>0, <1>2, <1>3, StageLeaving
<1>4. CASE run.mode # "batch"  BY <1>0, <1>2, <1>4, StageOutsideBatch
<1>5. CASE run.mode = "batch" /\ at' \in {"alloc", "stage"}
  <2>1. Typed'  BY <1>2, TypedStays DEF StageInv
  <2>2. /\ \A b \in 1 .. MaxBufs : staged[b] = IF b < i THEN run.sizes[b] ELSE 0
        /\ run.in_len \in Nat
        /\ k > 1 => run.sizes[i] \in 1 .. IntMax
    BY <1>0, <1>5 DEF StageInv, StagedSoFar
  <2>3. i' = i /\ run.sizes[i] \in 1 .. IntMax
    <3> HIDE DEF last
    <3>1. k = 1 \/ k > 1  BY <1>0 DEF last
    <3> QED  BY <1>1, <1>5, <2>2, <3>1
  <2>4. StagedSoFar'
    BY <1>0, <1>5, <2>2, <2>3 DEF StagedSoFar, NotAsked, RpcFailed, Unwritten
  <2> QED  BY <1>0, <1>5, <2>1, <2>4 DEF StageInv, NotAsked, RpcFailed, Unwritten
<1> QED  BY <1>1, <1>3, <1>4, <1>5

(* Staging buffer i takes it all when it is an input; the last takes what  *)
(* is left, or nothing.                                                    *)
LEMMA StageBufferStages ==
  ASSUME HeldInv, StageInv, StageBuffer
  PROVE  StageInv'
<1> DEFINE n == Take(run.sizes[i], run.in_len - in_off)
<1>0. /\ at = "stage" /\ run.mode = "batch" /\ run' = run /\ answer' = answer
      /\ answer = NotAsked /\ file' = file /\ ptrs' = ptrs
      /\ i \in 1 .. NBufs /\ run \in CommandLines
  BY DEF StageBuffer, StageInv, HeldInv, PlaceOK
<1>1. /\ NBufs \in 1 .. MaxBufs /\ MaxBufs \in Nat /\ IntMax \in Nat /\ i \in 1 .. MaxBufs
      /\ IsFiniteSet(1 .. MaxBufs) /\ NBufs' = NBufs
  <2>1. NBufs \in 1 .. MaxBufs /\ MaxBufs \in Nat /\ IntMax \in Nat
    BY <1>0, CommandLineTypes, HostAssumption
  <2> QED  BY <1>0, <2>1, FS_Interval, ClashKept
<1>2. /\ \A b \in 1 .. MaxBufs : staged[b] = IF b < i THEN run.sizes[b] ELSE 0
      /\ run.in_len \in Nat /\ run.sizes[i] \in 1 .. IntMax
  BY <1>0 DEF StageInv, StagedSoFar
<1>3. /\ staged \in [1 .. MaxBufs -> 0 .. IntMax] /\ in_off = SumFunction(staged)
      /\ in_off \in Nat
      /\ in_off > 0 => in_off <= run.in_len
      /\ ptrs \subseteq ToSet(Symbols) /\ file \in {"old", "partial", "whole", "lost"}
      /\ exit \in -2 .. 9
  BY DEF StageInv, Typed
<1>4. CASE n = -1
  <2>1. at' = "done" /\ exit' = 1 /\ staged' = staged /\ in_off' = in_off
    BY <1>4 DEF StageBuffer, CleanUp, Leave, ExitUsage
  <2>2. StagesNothing  BY <1>0, <1>3, <2>1 DEF StagesNothing
  <2> QED  BY <1>0, <2>1, <2>2, StageLeaving
<1>5. CASE n # -1
  <2>1. /\ staged' = [staged EXCEPT ![i] = n] /\ in_off' = in_off + n /\ exit' = exit
        /\ \/ i < NBufs /\ at' = "alloc" /\ k' = 1 /\ i' = i + 1
           \/ ~(i < NBufs) /\ at' = "response"
    BY <1>5 DEF StageBuffer, GoTo
  <2>2. /\ i < NBufs => n = run.sizes[i]
        /\ ~(i < NBufs) => n \in {0, run.sizes[i]} /\ n = run.in_len - in_off
        /\ n <= run.in_len - in_off
    BY <1>5, <1>2, <1>3 DEF Take
  <2>3. n \in 0 .. IntMax  BY <1>1, <1>2, <2>2
  <2> HIDE DEF n
  <2>4. staged' \in [1 .. MaxBufs -> 0 .. IntMax]  BY <1>3, <2>1, <2>3
  <2>5. /\ staged'[i] = n
        /\ \A b \in 1 .. MaxBufs : b # i => staged'[b] = staged[b]
    BY <1>1, <1>3, <2>1
  <2>6. SumFunction(staged') = in_off + n
    <3>1. staged[i] = 0  BY <1>1, <1>2
    <3>2. staged \in [1 .. MaxBufs -> Int] /\ n \in Int  BY <1>3, <2>3
    <3> QED  BY <1>1, <1>3, <2>1, <3>1, <3>2, SumWithOneMore
  <2>7. in_off' \in Nat /\ in_off' <= run.in_len
    <3>1. in_off \in Nat /\ run.in_len \in Nat /\ n \in Nat  BY <1>1, <1>2, <1>3, <2>3
    <3> QED  BY <2>1, <2>2, <3>1
  <2>8. Typed'
    <3>1. ptrs' \subseteq ToSet(Symbols)'  BY <1>0, <1>3 DEF Symbols, ToSet
    <3>2. in_off' = SumFunction(staged)'  BY <2>1, <2>6
    <3> QED  BY <1>0, <1>3, <2>1, <2>4, <2>7, <3>1, <3>2 DEF Typed
  <2>9. CASE i < NBufs
    <3>1. at' = "alloc" /\ k' = 1 /\ i' = i + 1  BY <2>1, <2>9
    <3>2. \A b \in 1 .. MaxBufs : staged'[b] = IF b < i + 1 THEN run.sizes[b] ELSE 0
      <4> TAKE b \in 1 .. MaxBufs
      <4>1. b \in Int /\ i \in Int  BY <1>1
      <4>2. CASE b = i  BY <2>2, <2>5, <2>9, <4>1, <4>2
      <4>3. CASE b # i
        <5>1. b < i + 1 <=> b < i  BY <4>1, <4>3
        <5> QED  BY <1>2, <2>5, <4>3, <5>1
      <4> QED  BY <4>2, <4>3
    <3>3. StagedSoFar'
      BY <1>0, <1>2, <3>1, <3>2 DEF StagedSoFar, NotAsked, RpcFailed, Unwritten
    <3> QED  BY <1>0, <2>8, <3>1, <3>3 DEF StageInv, NotAsked, RpcFailed, Unwritten
  <2>10. CASE ~(i < NBufs)
    <3>1. i = NBufs /\ at' = "response"  BY <1>0, <1>1, <2>1, <2>10
    <3>2. in_off' = run.in_len
      <4>1. in_off \in Nat /\ run.in_len \in Nat /\ n = run.in_len - in_off
        BY <1>2, <1>3, <2>2, <2>10
      <4> QED  BY <2>1, <4>1
    <3>3. \A b \in 1 .. NBufs - 1 : staged'[b] = run.sizes[b]
      <4> TAKE b \in 1 .. NBufs - 1
      <4>1. b \in 1 .. MaxBufs /\ b < i /\ b # i  BY <1>1, <3>1
      <4> QED  BY <1>2, <2>5, <4>1
    <3>4. staged'[NBufs] \in {0, run.sizes[NBufs]}  BY <2>2, <2>5, <2>10, <3>1
    <3>5. AllStaged'  BY <1>0, <1>1, <3>2, <3>3, <3>4 DEF AllStaged
    <3>6. StagedSoFar'  BY <3>1, <3>5 DEF StagedSoFar
    <3> QED  BY <1>0, <2>8, <3>1, <3>6 DEF StageInv, NotAsked, RpcFailed, Unwritten
  <2> QED  BY <2>9, <2>10
<1> QED  BY <1>4, <1>5

(* From the staging on the bytes stay where they are.                      *)
LEMMA LaterStages ==
  ASSUME HeldInv, StageInv, BuildBatch \/ AllocResponse \/ Invoke \/ Judge
  PROVE  StageInv'
<1>0. /\ at \in AllHeld /\ run' = run /\ staged' = staged /\ in_off' = in_off /\ ptrs' = ptrs
      /\ at # "judge" => file' = file
      /\ at = "build" => run.mode # "batch"
      /\ run.mode = "batch" => AllStaged
  BY DEF BuildBatch, AllocResponse, Invoke, Judge, AllHeld, StageInv, StagedSoFar
<1>1. \/ at' = "done" /\ exit' \in 0 .. 7 \union {-2}
      \/ at' \in {"response", "invoke"} /\ exit' = exit /\ answer' = NotAsked
      \/ at' = "judge" /\ exit' = exit
  <2>1. CASE BuildBatch
    BY <2>1 DEF BuildBatch, CleanUp, Leave, GoTo, ExitSessionFailed, StageInv
  <2>2. CASE AllocResponse  BY <2>2 DEF AllocResponse, GoTo, StageInv
  <2>3. CASE Invoke  BY <2>3 DEF Invoke, Die, Killed
  <2>4. CASE Judge
    <3>1. PICK code \in {ExitOk, ExitUsage, ExitNoResponse, ExitOpFailed, ExitMismatch,
                         ExitCoherencyMiss, ExitCoherencyGarbled} : CleanUp(code, << >>)
      BY <2>4, JudgedCode
    <3>2. code \in 0 .. 7
      BY DEF ExitOk, ExitUsage, ExitNoResponse, ExitOpFailed, ExitMismatch,
             ExitCoherencyMiss, ExitCoherencyGarbled
    <3> QED  BY <3>1, <3>2 DEF CleanUp, Leave
  <2> QED  BY <2>1, <2>2, <2>3, <2>4
<1>2. file' \in {"old", "partial", "whole", "lost"}
  <2>1. CASE Judge
    <3>1. file' = file \/ WriteOut  BY <2>1 DEF Judge
    <3> QED  BY <3>1 DEF WriteOut, StageInv, Typed
  <2>2. CASE ~Judge
    BY <2>2 DEF BuildBatch, AllocResponse, Invoke, StageInv, Typed
  <2> QED  BY <2>1, <2>2
<1>3. StagesNothing
  BY <1>0, <1>1, <1>2 DEF StagesNothing, StageInv, Typed
<1>4. CASE at' = "done"  BY <1>0, <1>3, <1>4, StageLeaving
<1>5. CASE run.mode # "batch"  BY <1>1, <1>3, <1>5, StageOutsideBatch
<1>6. CASE run.mode = "batch" /\ at' # "done"
  <2>1. Typed'  BY <1>3, TypedStays DEF StageInv
  <2>2. AllStaged'  BY <1>0, <1>6, AllStagedStays
  <2>3. StagedSoFar'  BY <1>1, <1>6, <2>2 DEF StagedSoFar
  <2> QED  BY <1>1, <2>1, <2>3 DEF StageInv, NotAsked, RpcFailed, Unwritten
<1> QED  BY <1>1, <1>4, <1>5, <1>6

LEMMA SimStages ==
  ASSUME HeldInv, StageInv, SimStep \/ SimReport
  PROVE  StageInv'
<1>0. /\ run' = run /\ staged' = staged /\ in_off' = in_off /\ ptrs' = ptrs /\ run.mode # "batch"
      /\ at = "sim" => k \in 1 .. 8 /\ answer = NotAsked
  BY DEF SimStep, SimReport, HeldInv, PlaceOK, InSim, StageInv
<1>1. /\ exit' \in -2 .. 9
      /\ at' \notin {"judge", "report", "done"} => answer' = NotAsked
      /\ file' \in {"old", "partial", "whole", "lost"}
  <2>1. CASE SimStep
    <3>1. /\ at = "sim" /\ file' = file
          /\ \/ at' = "sim" /\ exit' = exit /\ answer' = answer
             \/ at' = "report" /\ exit' = exit
             \/ at' = "done" /\ exit' = k + 1
      BY <2>1 DEF SimStep, GoTo, Leave
    <3> QED  BY <1>0, <3>1 DEF StageInv, Typed
  <2>2. CASE SimReport
    BY <2>2 DEF SimReport, Leave, StageInv, Typed
  <2> QED  BY <2>1, <2>2
<1>2. StagesNothing  BY <1>0, <1>1 DEF StagesNothing, StageInv, Typed
<1> QED  BY <1>0, <1>1, <1>2, StageOutsideBatch

LEMMA StageStays ==
  ASSUME StageInv, Release \/ UNCHANGED hostVars
  PROVE  StageInv'
<1>1. /\ run' = run /\ at' = at /\ k' = k /\ i' = i /\ ptrs' = ptrs /\ staged' = staged
      /\ in_off' = in_off /\ answer' = answer /\ file' = file /\ exit' = exit
  BY DEF Release, hostVars
<1>2. StagesNothing  BY <1>1 DEF StagesNothing, StageInv, Typed
<1>3. Typed'  BY <1>2, TypedStays DEF StageInv
<1>4. AllStaged' <=> AllStaged  BY <1>1, AllStagedStays
<1>5. StagedSoFar'
  BY <1>1, <1>4 DEF StageInv, StagedSoFar, NotAsked, RpcFailed, Unwritten
<1> QED  BY <1>1, <1>3, <1>5 DEF StageInv, NotAsked, RpcFailed, Unwritten

(* How much of --in is in the buffers is known at every place of a run.   *)
THEOREM StagingAlways == Spec => []StageInv
<1>1. HeldInv /\ StageInv /\ [Next]_hostVars => StageInv'
  BY OpeningStages, ReadingStages, AllocStages, StageBufferStages, LaterStages, SimStages,
     StageStays DEF Next, HostNext, Ended
<1> QED  BY StageInit, HeldAlways, <1>1, PTL DEF Spec

(* When a batch goes to the DSP, every byte of the --in file has gone to   *)
(* exactly one buffer (run_batch_file's loop, main.c:926-984), however     *)
(* many buffers there are and however large they may be.                   *)
THEOREM InputAllStaged == Spec => []StagedExactly
<1>1. StageInv => StagedExactly
  <2> SUFFICES ASSUME StageInv, run.mode = "batch", answer # NotAsked
               PROVE  /\ \A b \in 1 .. NBufs - 1 : staged[b] = run.sizes[b]
                      /\ staged[NBufs] \in {0, run.sizes[NBufs]}
                      /\ run.in_len = SumFunction(staged)
    BY DEF StagedExactly
  <2>1. AllStaged /\ in_off = SumFunction(staged)  BY DEF StageInv, StagedSoFar, Typed
  <2> QED  BY <2>1 DEF AllStaged
<1> QED  BY StagingAlways, <1>1, PTL

(* The state of a run stays of its kinds: no index past a table, no byte   *)
(* of --in past its end, no buffer given more than its size may be.        *)
THEOREM HostTypes == Spec => []HostTypeOK
<1>1. HeldInv /\ TruthInv /\ StageInv => HostTypeOK
  <2> SUFFICES ASSUME HeldInv, TruthInv, StageInv PROVE HostTypeOK
    OBVIOUS
  <2>1. \A r \in ToSet(todo) \union ledger :
          \/ r \in {Res(kind) : kind \in {"session", "handle", "ctx", "tmpl", "in",
                                         "array", "blob", "rsp"}}
          \/ r \in {Buf(kind, b) : kind \in {"rpc", "fast", "dsp", "node"},
                                   b \in 1 .. MaxBufs}
    <3>1. ToSet(todo) \union ledger \subseteq Resource
      BY DEF HeldInv, PlaceOK, QueueExact
    <3> QED  BY <3>1 DEF Resource, SessionKinds, TemporaryKinds, BufKinds
  <2>2. /\ run \in CommandLines /\ k \in 1 .. Len(OpenSteps) /\ i \in 1 .. MaxBufs
        /\ at \in {"open", "template", "input", "alloc", "stage", "build",
                   "response", "invoke", "judge", "sim", "report", "done"}
    BY OpenTable DEF HeldInv, PlaceOK, RunPlaces
  <2>3. /\ ptrs \subseteq ToSet(Symbols) /\ staged \in [1 .. MaxBufs -> 0 .. IntMax]
        /\ file \in {"old", "partial", "whole", "lost"} /\ exit \in -2 .. 9
    BY DEF StageInv, Typed
  <2>4. run.mode = "batch" /\ in_off > 0 => in_off \in 1 .. run.in_len
    <3>1. run.in_len \in Int  BY <2>2, CommandLineTypes DEF CommandLine
    <3> QED  BY <3>1 DEF StageInv, Typed
  <2>5. lanes \in [Lanes -> LaneOutcomes]  BY DEF TruthInv
  <2> QED  BY <2>1, <2>2, <2>3, <2>4, <2>5 DEF HostTypeOK
<1> QED  BY HeldAlways, TruthAlways, StagingAlways, <1>1, PTL

=============================================================================
