-------------------------- MODULE BoardDriversProofs --------------------------
(***************************************************************************)
(* Proofs about BoardDrivers: for every set of drivers and every number of *)
(* devices, whichever steps of a load fail, the error exits and the exit   *)
(* functions give everything back once, but for what the properties name.  *)
(***************************************************************************)
EXTENDS BoardDrivers, SequenceTheorems, TLAPS

-----------------------------------------------------------------------------
(* The inductive invariant.                                                *)

Names == {"proto", "root", "devices", "version", "sockets", "dev", "table", "proc", "stale",
          "ports", "memory", "map", "module", "irq", "parport", "chrdev", "conf", "base",
          "pita", "pci", "regions", "intcsr", "reset", "pnp"}
Kernels == [held : SUBSET (Nat \X Names), wrong : SUBSET (Nat \X Names)]

(* What device i holds once it is set up, besides its /proc directory. *)
Whole(i) ==
    CASE drv = "core" -> {"proto", "root", "devices", "version", "sockets"}
      [] drv = "virt" -> {"dev", "table"}
      [] drv = "isa" -> {"dev", "ports", "irq", "table"}
      [] drv = "mem" -> {"dev", "memory", "map", "irq", "table"}
      [] drv = "mscan" -> {"dev", "module", "irq", "table"}
      [] drv = "peak_dng" -> {"dev", "ports", "parport", "irq", "table"}
      [] drv = "peak_pci" ->
             {"dev", "base", "pita", "irq", "table"} \cup (IF i = 2 THEN {} ELSE {"conf"})
      [] drv = "ixxat_pci" -> {"dev", "intcsr", "irq", "table"}
      [] OTHER -> {}
Procs == {"proc", "stale"}
May(i) == Whole(i) \cup (IF drv = "core" THEN {} ELSE Procs)

(* What the board holds, and what it may hold *)
Board ==
    CASE drv = "peak_pci" -> {"pci", "regions"}
      [] drv = "ixxat_pci" -> {"pci", "regions", "base"}
      [] OTHER -> {}
PnpBoard == Board \cup (IF drv \in {"peak_dng", "serial"} THEN {"pnp"} ELSE {})

(* The init loop: devices 1 .. next-1 are set up.  The serial driver takes *)
(* every registration for a failure; the single-channel PEAK PCI board     *)
(* never gets past its first device; only two drivers stay loaded after    *)
(* they failed.                                                            *)
Position ==
    /\ drv \in Drivers /\ pc \in {"out", "spent", "twice", "loading", "in", "oops"}
    /\ total \in Nat /\ next \in Nat \ {0} /\ k \in Kernels
    /\ Down => next = 1
    /\ pc \in {"out", "twice"} => total = 0
    /\ pc \in {"spent", "twice"} => drv \in {"mscan", "serial"}
    /\ ~Down => ghosts = {}
    /\ pc = "loading" => next <= total
    /\ pc = "in" => next = total + 1
    /\ drv \in {"peak_pci", "ixxat_pci"} /\ ~Down => total \in {1, 2}
    /\ drv = "peak_pci" /\ pc = "in" => total = 2
    /\ drv = "core" => total <= 1
    /\ drv = "serial" => next = 1 /\ (Down => total = 0)

(* pnp_registered says whether the driver is registered with PnP, until it *)
(* is unregistered.                                                        *)
PnpKnown ==
    /\ pnp \in {0, 1} /\ (pnp = 1 => drv \in {"peak_dng", "serial"})
    /\ ~Down => (pnp = 1 <=> <<0, "pnp">> \in k.held)

(* Nothing else is held, and all of that is. *)
HeldOnly ==
    \A h \in k.held :
        \/ h[2] \in KnownLeaks
        \/ h[1] \in ghosts /\ h[2] \in {"table"} \cup Procs
        \/ ~Down /\ h[1] = 0 /\ h[2] \in PnpBoard
        \/ ~Down /\ h[1] \in 1..(next - 1) /\ h[2] \in May(h[1])
HeldAll ==
    ~Down =>
        /\ \A r \in Board : <<0, r>> \in k.held
        /\ \A i \in 1..(next - 1) : \A r \in Whole(i) : <<i, r>> \in k.held

IInv == Position /\ PnpKnown /\ HeldOnly /\ HeldAll /\ GivenBackOnce

-----------------------------------------------------------------------------
(* Taking, accessing and giving back.                                      *)

(* Taking resources puts them among those held. *)
LEMMA GetShape ==
    ASSUME NEW s \in Kernels, NEW i \in Nat, NEW rs \in SUBSET (Names \cup Checks)
    PROVE  /\ Get(s, i, rs) \in Kernels /\ Get(s, i, rs).wrong = s.wrong
           /\ Get(s, i, rs).held = s.held \cup ({i} \X (rs \ Checks))
<1>1. s.held \in SUBSET (Nat \X Names) /\ s.wrong \in SUBSET (Nat \X Names)
  BY DEF Kernels
<1>2. {i} \X (rs \ Checks) \in SUBSET (Nat \X Names)
  OBVIOUS
<1>3. \A H \in SUBSET (Nat \X Names) :
         LET t == [s EXCEPT !.held = H] IN t \in Kernels /\ t.held = H /\ t.wrong = s.wrong
  BY <1>1 DEF Kernels
<1>4. Get(s, i, rs) = [s EXCEPT !.held = s.held \cup ({i} \X (rs \ Checks))]
  BY DEF Get
<1> QED
  BY <1>1, <1>2, <1>3, <1>4

(* An access to what is not held goes wrong. *)
LEMMA AccessShape ==
    ASSUME NEW s \in Kernels, NEW i \in Nat, NEW rs \in SUBSET Names
    PROVE  /\ Access(s, i, rs) \in Kernels /\ Access(s, i, rs).held = s.held
           /\ Access(s, i, rs).wrong = s.wrong \cup (({i} \X rs) \ s.held)
<1>1. s.held \in SUBSET (Nat \X Names) /\ s.wrong \in SUBSET (Nat \X Names)
  BY DEF Kernels
<1>2. ({i} \X rs) \ s.held \in SUBSET (Nat \X Names)
  OBVIOUS
<1>3. \A W \in SUBSET (Nat \X Names) :
         LET t == [s EXCEPT !.wrong = W] IN t \in Kernels /\ t.held = s.held /\ t.wrong = W
  BY <1>1 DEF Kernels
<1>4. Access(s, i, rs) = [s EXCEPT !.wrong = s.wrong \cup (({i} \X rs) \ s.held)]
  BY DEF Access
<1> QED
  BY <1>1, <1>2, <1>3, <1>4

(* So does giving it back. *)
LEMMA PutShape ==
    ASSUME NEW s \in Kernels, NEW i \in Nat, NEW rs \in SUBSET Names
    PROVE  /\ Put(s, i, rs) \in Kernels /\ Put(s, i, rs).held = s.held \ ({i} \X rs)
           /\ Put(s, i, rs).wrong = s.wrong \cup (({i} \X rs) \ s.held)
<1> DEFINE a == Access(s, i, rs)
<1>1. /\ a \in Kernels /\ a.held = s.held
      /\ a.wrong = s.wrong \cup (({i} \X rs) \ s.held)
  BY AccessShape
<1>2. Put(s, i, rs) = [a EXCEPT !.held = a.held \ ({i} \X rs)]
  BY DEF Put
<1> HIDE DEF a
<1>3. a.held \in SUBSET (Nat \X Names) /\ a.wrong \in SUBSET (Nat \X Names)
  BY <1>1 DEF Kernels
<1>4. \A H \in SUBSET (Nat \X Names) :
         LET t == [a EXCEPT !.held = H] IN t \in Kernels /\ t.held = H /\ t.wrong = a.wrong
  BY <1>1, <1>3 DEF Kernels
<1>5. a.held \ ({i} \X rs) \in SUBSET (Nat \X Names)
  BY <1>3
<1> QED
  BY <1>1, <1>2, <1>4, <1>5

(* Giving back what is held *)
LEMMA PutHeld ==
    ASSUME NEW s \in Kernels, NEW i \in Nat, NEW rs \in SUBSET Names,
           \A r \in rs : <<i, r>> \in s.held
    PROVE  /\ Put(s, i, rs) \in Kernels /\ Put(s, i, rs).held = s.held \ ({i} \X rs)
           /\ Put(s, i, rs).wrong = s.wrong
<1>1. ({i} \X rs) \ s.held = {}
  OBVIOUS
<1>2. /\ Put(s, i, rs) \in Kernels /\ Put(s, i, rs).held = s.held \ ({i} \X rs)
      /\ Put(s, i, rs).wrong = s.wrong \cup (({i} \X rs) \ s.held)
  BY PutShape
<1>3. Put(s, i, rs).wrong = s.wrong
  BY <1>1, <1>2
<1> QED
  BY <1>2, <1>3

(* The same, under one name *)
Returned(s, t, i, rs) ==
    t \in Kernels /\ t.held = s.held \ ({i} \X rs) /\ t.wrong = s.wrong

(* Giving back what is held returns it. *)
LEMMA PutReturned ==
    ASSUME NEW s \in Kernels, NEW i \in Nat, NEW rs \in SUBSET Names,
           \A r \in rs : <<i, r>> \in s.held
    PROVE  Returned(s, Put(s, i, rs), i, rs)
BY PutHeld DEF Returned

(* Accessing what is held *)
LEMMA AccessHeld ==
    ASSUME NEW s \in Kernels, NEW i \in Nat, NEW rs \in SUBSET Names,
           \A r \in rs : <<i, r>> \in s.held
    PROVE  /\ Access(s, i, rs) \in Kernels /\ Access(s, i, rs).held = s.held
           /\ Access(s, i, rs).wrong = s.wrong
<1>1. ({i} \X rs) \ s.held = {}
  OBVIOUS
<1> QED
  BY <1>1, AccessShape

(* A script whose error exits give back only what was taken before, and    *)
(* leave at most L of it: the outcomes.                                    *)
Sound(script, N, undo, L) ==
    /\ N \in Nat /\ Len(script) = N /\ \A n \in 1..N : script[n] \in Names \cup Checks
    /\ \A n \in 1..N : script[n] \in DOMAIN undo =>
          /\ undo[script[n]] \subseteq Names
          /\ \A r \in undo[script[n]] : \E j \in 1..(n - 1) : script[j] = r
          /\ \A j \in 1..(n - 1) : script[j] \in undo[script[n]] \cup Checks \cup L
Failed(s, t, i, L) ==
    /\ t \in Kernels /\ t.wrong = s.wrong
    /\ \A h \in t.held : h \in s.held \/ (h[1] = i /\ h[2] \in L)
    /\ \A h \in s.held : h[1] # i => h \in t.held
Succeeded(s, t, i, rs) == t \in Kernels /\ t.wrong = s.wrong /\ t.held = s.held \cup ({i} \X rs)
FailedAt(o, s, i, script, N, undo, L) ==
    /\ Failed(s, o.k, i, L)
    /\ \E n \in 1..N : o.at = script[n] /\ script[n] \in DOMAIN undo
Outcome(o, s, i, script, N, undo, L) ==
    /\ o = [ok |-> o.ok, at |-> o.at, k |-> o.k]
    /\ \/ o.ok = TRUE /\ Succeeded(s, o.k, i, Taken(script, N) \ Checks)
       \/ o.ok = FALSE /\ FailedAt(o, s, i, script, N, undo, L)


(* Every outcome of a sound script is one of these. *)
LEMMA AttemptShape ==
    ASSUME NEW s \in Kernels, NEW i \in Nat, NEW script, NEW N, NEW undo, NEW L,
           Sound(script, N, undo, L), NEW o \in Attempt(s, i, script, undo)
    PROVE  Outcome(o, s, i, script, N, undo, L)
<1>0. /\ N \in Nat /\ Len(script) = N
      /\ \A n \in 0..N : Taken(script, n) \in SUBSET (Names \cup Checks)
  BY DEF Sound, Taken
<1>1. ASSUME NEW n \in 1..N, script[n] \in DOMAIN undo,
             o = [ok |-> FALSE, at |-> script[n],
                  k |-> Put(Get(s, i, Taken(script, n - 1)), i, undo[script[n]])]
      PROVE  /\ o.ok = FALSE /\ o.at = script[n] /\ Failed(s, o.k, i, L)
             /\ o = [ok |-> o.ok, at |-> o.at, k |-> o.k]
  <2> DEFINE g == Get(s, i, Taken(script, n - 1))
             u == undo[script[n]]
             p == Put(g, i, u)
  <2>1. n - 1 \in 0..N
    BY <1>0
  <2>2. /\ g \in Kernels /\ g.wrong = s.wrong
        /\ g.held = s.held \cup ({i} \X (Taken(script, n - 1) \ Checks))
    BY <1>0, <2>1, GetShape
  <2>3. u \in SUBSET Names /\ \A r \in u : r \in Taken(script, n - 1)
    BY <1>0, <1>1 DEF Sound, Taken
  <2>4. Names \cap Checks = {}
    BY DEF Names, Checks
  <2>5. \A r \in Taken(script, n - 1) : r \in u \cup Checks \cup L
    BY <1>0, <1>1 DEF Sound, Taken
  <2>6. o.ok = FALSE /\ o.at = script[n] /\ o.k = p
    BY <1>1
  <2> HIDE DEF g, u
  <2>7. \A r \in u : <<i, r>> \in g.held
    BY <2>2, <2>3, <2>4
  <2>8. p \in Kernels /\ p.held = g.held \ ({i} \X u) /\ p.wrong = s.wrong
    BY <2>2, <2>3, <2>7, PutHeld
  <2> HIDE DEF p
  <2>9. ASSUME NEW h \in p.held, h \notin s.held PROVE h[1] = i /\ h[2] \in L
    <3>1. h \in {i} \X (Taken(script, n - 1) \ Checks) /\ h \notin {i} \X u
      BY <2>2, <2>8, <2>9
    <3>2. h[1] = i /\ h[2] \in Taken(script, n - 1) /\ h[2] \notin Checks /\ h[2] \notin u
      BY <3>1
    <3> QED
      BY <2>5, <3>2
  <2>10. \A h \in s.held : h[1] # i => h \in p.held
    BY <2>2, <2>8
  <2> QED
    BY <1>1, <2>6, <2>8, <2>9, <2>10 DEF Failed, p, g, u
<1>2. ASSUME o = [ok |-> TRUE, at |-> "", k |-> Get(s, i, Taken(script, N))]
      PROVE  /\ o.ok = TRUE /\ Succeeded(s, o.k, i, Taken(script, N) \ Checks)
             /\ o = [ok |-> o.ok, at |-> o.at, k |-> o.k]
  <2>1. N \in 0..N
    BY <1>0
  <2>2. o.ok = TRUE
    BY <1>2
  <2>3. o.k = Get(s, i, Taken(script, N)) /\ o.at = ""
    BY <1>2
  <2>4. o = [ok |-> o.ok, at |-> o.at, k |-> o.k]
    BY <1>2, <2>2, <2>3, Zenon
  <2>5. Succeeded(s, o.k, i, Taken(script, N) \ Checks)
    <3> DEFINE g == Get(s, i, Taken(script, N))
    <3>1. /\ g \in Kernels /\ g.wrong = s.wrong
          /\ g.held = s.held \cup ({i} \X (Taken(script, N) \ Checks))
      BY <1>0, <2>1, GetShape
    <3> QED
      BY <2>3, <3>1 DEF Succeeded
  <2> QED
    BY <2>2, <2>4, <2>5
<1>3. \/ \E n \in 1..N : script[n] \in DOMAIN undo /\
            o = [ok |-> FALSE, at |-> script[n],
                 k |-> Put(Get(s, i, Taken(script, n - 1)), i, undo[script[n]])]
      \/ o = [ok |-> TRUE, at |-> "", k |-> Get(s, i, Taken(script, N))]
  BY <1>0 DEF Attempt
<1> QED
  BY <1>1, <1>2, <1>3 DEF Outcome, FailedAt

(* The /proc directory changes what is held only by itself. *)
Extended(s, t, i, rs) ==
    /\ t \in Kernels /\ t.wrong = s.wrong /\ s.held \subseteq t.held
    /\ \A r \in rs : <<i, r>> \in t.held
    /\ \A h \in t.held : h \in s.held \/ (h[1] = i /\ h[2] \in rs \cup Procs)

(* Outcomes with rtcan_dev_create_proc after them *)
LEMMA WithProcShape ==
    ASSUME NEW s \in Kernels, NEW i \in Nat, NEW script, NEW N, NEW undo, NEW L,
           Sound(script, N, undo, L), NEW o \in WithProc(Attempt(s, i, script, undo), i)
    PROVE  \/ o.ok = TRUE /\ Extended(s, o.k, i, Taken(script, N) \ Checks)
           \/ o.ok = FALSE /\ FailedAt(o, s, i, script, N, undo, L)
<1> DEFINE A == Attempt(s, i, script, undo)
           rs == Taken(script, N) \ Checks
<1>1. ASSUME NEW x \in A PROVE Outcome(x, s, i, script, N, undo, L)
  BY AttemptShape
<1>2. \/ o \in A /\ ~o.ok
      \/ \E x \in A, p \in {{"proc"}, {}, {"stale"}} :
            x.ok /\ o = [x EXCEPT !.k = Get(x.k, i, p)]
  BY DEF WithProc
<1>3. ASSUME NEW x \in A, NEW p \in {{"proc"}, {}, {"stale"}}, x.ok,
             o = [x EXCEPT !.k = Get(x.k, i, p)]
      PROVE  o.ok = TRUE /\ Extended(s, o.k, i, rs)
  <2>1. /\ x.k \in Kernels /\ x.k.wrong = s.wrong
        /\ x.k.held = s.held \cup ({i} \X rs)
    BY <1>1, <1>3 DEF Outcome, Succeeded
  <2>2. p \in SUBSET (Names \cup Checks) /\ p \ Checks \subseteq Procs
    BY DEF Names, Procs
  <2>3. /\ Get(x.k, i, p) \in Kernels /\ Get(x.k, i, p).wrong = s.wrong
        /\ Get(x.k, i, p).held = x.k.held \cup ({i} \X (p \ Checks))
    BY <2>1, <2>2, GetShape
  <2>4. o.ok = TRUE /\ o.k = Get(x.k, i, p)
    <3>1. x = [ok |-> x.ok, at |-> x.at, k |-> x.k] /\ x.ok = TRUE
      BY <1>1, <1>3 DEF Outcome
    <3> QED
      BY <1>3, <3>1
  <2> HIDE DEF rs
  <2>5. s.held \subseteq o.k.held /\ \A r \in rs : <<i, r>> \in o.k.held
    BY <2>1, <2>3, <2>4
  <2>6. \A h \in o.k.held : h \in s.held \/ (h[1] = i /\ h[2] \in rs \cup Procs)
    BY <2>1, <2>2, <2>3, <2>4
  <2> QED
    BY <2>3, <2>4, <2>5, <2>6 DEF Extended
<1> HIDE DEF rs, A
<1>4. CASE o \in A /\ ~o.ok
  BY <1>1, <1>4 DEF Outcome
<1>5. CASE \E x \in A, p \in {{"proc"}, {}, {"stale"}} :
              x.ok /\ o = [x EXCEPT !.k = Get(x.k, i, p)]
  <2>1. PICK x \in A, p \in {{"proc"}, {}, {"stale"}} :
           x.ok /\ o = [x EXCEPT !.k = Get(x.k, i, p)]
    BY <1>5
  <2>2. o.ok = TRUE /\ Extended(s, o.k, i, rs)
    BY <1>3, <2>1
  <2> QED
    BY <2>2 DEF rs
<1> QED
  BY <1>2, <1>4, <1>5

-----------------------------------------------------------------------------
(* The end of a device.  Ended: t comes from s by giving back rs of device *)
(* i, and its table entry and /proc directory unless it is busy.           *)
Ended(s, t, i, rs, busy) ==
    /\ t \in Kernels
    /\ t.held = s.held \ ({i} \X (rs \cup (IF busy THEN {} ELSE {"table"} \cup Procs)))
    /\ \A w \in t.wrong : w \in s.wrong \/ w[2] = "stale"

(* rtcan_dev_unregister takes the table entry and the /proc directory, or  *)
(* nothing from a busy device.                                             *)
LEMMA UnregisterShape ==
    ASSUME NEW s \in Kernels, NEW i \in Nat, NEW busy \in BOOLEAN,
           <<i, "dev">> \in s.held, <<i, "table">> \in s.held
    PROVE  Ended(s, Unregister(s, i, busy), i, {}, busy)
<1> DEFINE a == Access(s, i, {"dev"})
           p == {r \in {"proc", "stale"} : <<i, r>> \in s.held}
           b == [a EXCEPT !.held = @ \ ({i} \X p),
                          !.wrong = @ \cup ({i} \X (p \cap {"stale"}))]
<1>0. /\ {"dev"} \in SUBSET Names /\ {"table"} \in SUBSET Names /\ p \in SUBSET Names
      /\ p \in SUBSET Procs
  BY DEF Names, Procs
<1>1. a \in Kernels /\ a.held = s.held /\ a.wrong = s.wrong
  BY <1>0, AccessHeld
<1>2. Unregister(s, i, busy) = IF busy THEN a ELSE Put(b, i, {"table"})
  BY DEF Unregister
<1> HIDE DEF a
<1>3. /\ b \in Kernels /\ b.held = s.held \ ({i} \X p)
      /\ b.wrong = s.wrong \cup ({i} \X (p \cap {"stale"}))
  <2>1. /\ a.held \in SUBSET (Nat \X Names) /\ a.wrong \in SUBSET (Nat \X Names)
    BY <1>1 DEF Kernels
  <2>2. /\ a.held \ ({i} \X p) \in SUBSET (Nat \X Names)
        /\ a.wrong \cup ({i} \X (p \cap {"stale"})) \in SUBSET (Nat \X Names)
    BY <1>0, <2>1
  <2>3. \A H \in SUBSET (Nat \X Names), W \in SUBSET (Nat \X Names) :
           LET t == [a EXCEPT !.held = H, !.wrong = W]
           IN  t \in Kernels /\ t.held = H /\ t.wrong = W
    BY <1>1 DEF Kernels
  <2>4. b = [a EXCEPT !.held = a.held \ ({i} \X p),
                      !.wrong = a.wrong \cup ({i} \X (p \cap {"stale"}))]
    OBVIOUS
  <2> DEFINE H == a.held \ ({i} \X p)
             W == a.wrong \cup ({i} \X (p \cap {"stale"}))
  <2>5. H \in SUBSET (Nat \X Names) /\ W \in SUBSET (Nat \X Names)
    BY <2>2
  <2>6. b = [a EXCEPT !.held = H, !.wrong = W]
    BY <2>4
  <2> HIDE DEF p, b, H, W
  <2>7. b \in Kernels /\ b.held = H /\ b.wrong = W
    BY <2>3, <2>5, <2>6
  <2> QED
    BY <1>1, <2>7 DEF H, W
<1>4. \A r \in Procs : r \in p <=> <<i, r>> \in s.held
  BY DEF Procs
<1> HIDE DEF b, p
<1>5. CASE busy
  <2>1. s.held = s.held \ ({i} \X ({} \cup {}))
    OBVIOUS
  <2> QED
    BY <1>1, <1>2, <1>5, <2>1 DEF Ended
<1>6. CASE ~busy
  <2>1. "table" \notin p
    BY <1>0 DEF Procs
  <2>2. <<i, "table">> \in b.held
    BY <1>3, <2>1
  <2>3. /\ Put(b, i, {"table"}) \in Kernels /\ Put(b, i, {"table"}).wrong = b.wrong
        /\ Put(b, i, {"table"}).held = b.held \ ({i} \X {"table"})
    BY <1>0, <1>3, <2>2, PutHeld
  <2>4. b.held \ ({i} \X {"table"}) = s.held \ ({i} \X ({} \cup ({"table"} \cup Procs)))
    <3>1. s.held \in SUBSET (Nat \X Names)
      BY DEF Kernels
    <3>2. ASSUME NEW h \in s.held
          PROVE  h \in {i} \X p \/ h \in {i} \X {"table"} <=>
                 h \in {i} \X ({} \cup ({"table"} \cup Procs))
      <4>1. h = <<h[1], h[2]>>
        BY <3>1
      <4> QED
        BY <1>0, <1>4, <4>1
    <3> QED
      BY <1>3, <3>2
  <2>5. \A w \in b.wrong : w \in s.wrong \/ w[2] = "stale"
    BY <1>3
  <2> QED
    BY <1>2, <1>6, <2>3, <2>4, <2>5 DEF Ended
<1> QED
  BY <1>5, <1>6

(* Giving back more of the same device *)
LEMMA EndedPut ==
    ASSUME NEW s \in Kernels, NEW t, NEW i \in Nat, NEW rs \in SUBSET Names,
           NEW busy \in BOOLEAN, Ended(s, t, i, rs, busy), NEW more \in SUBSET Names,
           \A r \in more : <<i, r>> \in s.held /\ r \notin rs \cup {"table"} \cup Procs
    PROVE  Ended(s, Put(t, i, more), i, rs \cup more, busy)
<1> DEFINE lost == IF busy THEN {} ELSE {"table"} \cup Procs
<1>1. /\ t \in Kernels /\ t.held = s.held \ ({i} \X (rs \cup lost))
      /\ \A w \in t.wrong : w \in s.wrong \/ w[2] = "stale"
  BY DEF Ended
<1>2. lost \subseteq {"table"} \cup Procs
  OBVIOUS
<1> HIDE DEF lost
<1>3. \A r \in more : <<i, r>> \in t.held
  BY <1>1, <1>2
<1>4. /\ Put(t, i, more) \in Kernels /\ Put(t, i, more).wrong = t.wrong
      /\ Put(t, i, more).held = t.held \ ({i} \X more)
  <2>1. t \in Kernels
    BY <1>1
  <2>2. Returned(t, Put(t, i, more), i, more)
    BY <1>3, <2>1, PutReturned
  <2> QED
    BY <2>2 DEF Returned
<1>5. t.held \ ({i} \X more) = s.held \ ({i} \X ((rs \cup more) \cup lost))
  BY <1>1
<1> QED
  BY <1>1, <1>4, <1>5 DEF Ended, lost

(* rtcan_sja1000_unregister takes the interrupt besides. *)
LEMMA SjaUnregisterShape ==
    ASSUME NEW s \in Kernels, NEW i \in Nat, NEW busy \in BOOLEAN,
           NEW regs \in SUBSET s.held,
           \A r \in {"irq", "dev", "table"} : <<i, r>> \in s.held
    PROVE  Ended(s, SjaUnregister(s, i, regs, busy), i, {"irq"}, busy)
<1> DEFINE a == [s EXCEPT !.wrong = @ \cup (regs \ s.held)]
           p == Put(a, i, {"irq"})
<1>1. a = s
  <2>1. regs \ s.held = {}
    OBVIOUS
  <2>2. s.wrong \cup (regs \ s.held) = s.wrong
    BY <2>1
  <2>3. s = [held |-> s.held, wrong |-> s.wrong]
    BY DEF Kernels
  <2> QED
    BY <2>2, <2>3 DEF Kernels
<1>2. SjaUnregister(s, i, regs, busy) = Unregister(p, i, busy)
  BY DEF SjaUnregister
<1>3. {"irq"} \in SUBSET Names
  BY DEF Names
<1>4. p \in Kernels /\ p.wrong = s.wrong /\ p.held = s.held \ ({i} \X {"irq"})
  <2>1. Returned(s, Put(s, i, {"irq"}), i, {"irq"})
    BY <1>3, PutReturned
  <2> QED
    BY <1>1, <2>1 DEF Returned
<1> HIDE DEF p
<1>5. Ended(p, Unregister(p, i, busy), i, {}, busy)
  BY <1>4, UnregisterShape
<1> DEFINE lost == IF busy THEN {} ELSE {"table"} \cup Procs
           u == Unregister(p, i, busy)
<1>6. /\ u \in Kernels /\ u.held = p.held \ ({i} \X ({} \cup lost))
      /\ \A w \in u.wrong : w \in p.wrong \/ w[2] = "stale"
  BY <1>5 DEF Ended
<1> HIDE DEF lost, u
<1>7. u.held = s.held \ ({i} \X ({"irq"} \cup lost))
  BY <1>4, <1>6
<1>8. \A w \in u.wrong : w \in s.wrong \/ w[2] = "stale"
  BY <1>4, <1>6
<1> QED
  BY <1>2, <1>6, <1>7, <1>8 DEF Ended, lost, u

(* The exit of one device gives back all it held but known leaks, and the  *)
(* entries of a busy one.                                                  *)
Exited(s, e, i, busy) ==
    /\ e \in Kernels /\ e.held \subseteq s.held
    /\ \A w \in e.wrong : w \in s.wrong \/ w[2] = "stale"
    /\ \A h \in s.held : h[1] # i => h \in e.held
    /\ \A r \in May(i) : <<i, r>> \in e.held =>
          r \in KnownLeaks \/ (busy /\ r \in {"table"} \cup Procs)

(* What is left to show about a driver's exit function *)
LEMMA EndedExited ==
    ASSUME NEW s \in Kernels, NEW e, NEW i \in Nat, NEW busy \in BOOLEAN, NEW rs,
           Ended(s, e, i, rs, busy), Whole(i) \subseteq rs \cup {"table"} \cup KnownLeaks
    PROVE  Exited(s, e, i, busy)
<1>1. /\ e \in Kernels
      /\ e.held = s.held \ ({i} \X (rs \cup (IF busy THEN {} ELSE {"table"} \cup Procs)))
      /\ \A w \in e.wrong : w \in s.wrong \/ w[2] = "stale"
  BY DEF Ended
<1>2. ASSUME NEW r \in May(i), <<i, r>> \in e.held
      PROVE  r \in KnownLeaks \/ (busy /\ r \in {"table"} \cup Procs)
  <2>1. r \notin rs /\ (~busy => r \notin {"table"} \cup Procs)
    BY <1>1, <1>2
  <2>2. r \in rs \cup {"table"} \cup KnownLeaks \cup Procs
    BY DEF May
  <2> QED
    BY <2>1, <2>2
<1> QED
  BY <1>1, <1>2 DEF Exited

(* The exit functions of the core, virtual, ISA, memory-mapped, MSCAN and  *)
(* dongle drivers                                                          *)
LEMMA ExitOneShape ==
    ASSUME NEW s \in Kernels, NEW i \in Nat, NEW busy \in BOOLEAN,
           drv \in {"core", "virt", "isa", "mem", "mscan", "peak_dng"},
           \A r \in Whole(i) : <<i, r>> \in s.held
    PROVE  Exited(s, ExitOne(s, i, busy), i, busy)
<1>0. /\ {"dev"} \in SUBSET Names /\ {"irq"} \in SUBSET Names /\ {} \in SUBSET Names
      /\ {"map", "memory", "dev"} \in SUBSET Names
      /\ {"parport", "ports", "dev"} \in SUBSET Names
      /\ {"proto", "devices", "version", "sockets", "root"} \in SUBSET Names
  BY DEF Names
<1>1. CASE drv = "core"
  <2> DEFINE rs == {"proto", "devices", "version", "sockets", "root"}
  <2>1. ExitOne(s, i, busy) = Put(s, i, rs)
    BY <1>1 DEF ExitOne, CoreExitOne
  <2>2. May(i) = rs /\ Whole(i) = rs
    BY <1>1 DEF May, Whole
  <2> HIDE DEF rs
  <2>3. rs \in SUBSET Names
    BY <1>0 DEF rs
  <2>4. /\ Put(s, i, rs) \in Kernels /\ Put(s, i, rs).wrong = s.wrong
        /\ Put(s, i, rs).held = s.held \ ({i} \X rs)
    BY <2>2, <2>3, PutHeld
  <2>5. \A r \in May(i) : <<i, r>> \notin Put(s, i, rs).held
    BY <2>2, <2>4
  <2> QED
    BY <2>1, <2>4, <2>5 DEF Exited
<1>2. CASE drv = "virt"
  <2>1. ExitOne(s, i, busy) = Put(Unregister(s, i, busy), i, {"dev"})
    BY <1>2 DEF ExitOne, VirtExitOne
  <2>2. Whole(i) = {"dev", "table"}
    BY <1>2 DEF Whole
  <2>3. Ended(s, Unregister(s, i, busy), i, {}, busy)
    BY <2>2, UnregisterShape
  <2>4. Ended(s, ExitOne(s, i, busy), i, {} \cup {"dev"}, busy)
    BY <1>0, <2>1, <2>2, <2>3, EndedPut DEF Procs
  <2> QED
    BY <2>2, <2>4, EndedExited
<1>3. CASE drv = "isa"
  <2> DEFINE u == SjaUnregister(s, i, {<<i, "ports">>}, busy)
  <2>1. ExitOne(s, i, busy) = Put(u, i, {"dev"})
    BY <1>3 DEF ExitOne, IsaExitOne
  <2>2. Whole(i) = {"dev", "ports", "irq", "table"} /\ KnownLeaks = {"ports"}
    BY <1>3 DEF Whole, KnownLeaks
  <2>3. Ended(s, u, i, {"irq"}, busy)
    BY <2>2, SjaUnregisterShape
  <2> HIDE DEF u
  <2>4. Ended(s, ExitOne(s, i, busy), i, {"irq"} \cup {"dev"}, busy)
    BY <1>0, <2>1, <2>2, <2>3, EndedPut DEF Procs
  <2> QED
    BY <2>2, <2>4, EndedExited
<1>4. CASE drv = "mem"
  <2> DEFINE u == SjaUnregister(s, i, {<<i, "map">>}, busy)
             m == {"map", "memory", "dev"}
  <2>1. ExitOne(s, i, busy) = Put(u, i, m)
    BY <1>4 DEF ExitOne, MemExitOne
  <2>2. Whole(i) = {"dev", "memory", "map", "irq", "table"}
    BY <1>4 DEF Whole
  <2>3. Ended(s, u, i, {"irq"}, busy)
    BY <2>2, SjaUnregisterShape
  <2> HIDE DEF u
  <2>4. \A r \in m : <<i, r>> \in s.held /\ r \notin {"irq"} \cup {"table"} \cup Procs
    BY <2>2 DEF Procs
  <2>5. Ended(s, ExitOne(s, i, busy), i, {"irq"} \cup m, busy)
    BY <1>0, <2>1, <2>3, <2>4, EndedPut
  <2> QED
    BY <2>2, <2>5, EndedExited
<1>5. CASE drv = "mscan"
  <2> DEFINE p == Put(s, i, {"irq"})
             u == Unregister(p, i, busy)
  <2>1. ExitOne(s, i, busy) = Put(u, i, {"dev"})
    BY <1>5 DEF ExitOne, MscanExitOne
  <2>2. Whole(i) = {"dev", "module", "irq", "table"} /\ KnownLeaks = {"module"}
    BY <1>5 DEF Whole, KnownLeaks
  <2>3. u = SjaUnregister(s, i, {}, busy)
    <3>1. s = [s EXCEPT !.wrong = @ \cup ({} \ s.held)]
      BY DEF Kernels
    <3> QED
      BY <3>1 DEF SjaUnregister
  <2>4. Ended(s, u, i, {"irq"}, busy)
    BY <2>2, <2>3, SjaUnregisterShape
  <2> HIDE DEF u
  <2>5. Ended(s, ExitOne(s, i, busy), i, {"irq"} \cup {"dev"}, busy)
    BY <1>0, <2>1, <2>2, <2>4, EndedPut DEF Procs
  <2> QED
    BY <2>2, <2>5, EndedExited
<1>6. CASE drv = "peak_dng"
  <2> DEFINE u == SjaUnregister(s, i, {<<i, "ports">>}, busy)
             m == {"parport", "ports", "dev"}
  <2>1. ExitOne(s, i, busy) = Put(u, i, m)
    BY <1>6 DEF ExitOne, DngExitOne
  <2>2. Whole(i) = {"dev", "ports", "parport", "irq", "table"}
    BY <1>6 DEF Whole
  <2>3. Ended(s, u, i, {"irq"}, busy)
    BY <2>2, SjaUnregisterShape
  <2> HIDE DEF u
  <2>4. \A r \in m : <<i, r>> \in s.held /\ r \notin {"irq"} \cup {"table"} \cup Procs
    BY <2>2 DEF Procs
  <2>5. Ended(s, ExitOne(s, i, busy), i, {"irq"} \cup m, busy)
    BY <1>0, <2>1, <2>3, <2>4, EndedPut
  <2> QED
    BY <2>2, <2>5, EndedExited
<1> QED
  BY <1>1, <1>2, <1>3, <1>4, <1>5, <1>6

-----------------------------------------------------------------------------
(* Loaded: devices 1 .. n are set up and the board is.  Clean: the module  *)
(* is out.  In both, nothing else is held and nothing went wrong.          *)
Loaded(s, n) ==
    /\ s \in Kernels
    /\ \A h \in s.held :
          \/ h[2] \in KnownLeaks
          \/ h[1] = 0 /\ h[2] \in PnpBoard
          \/ h[1] \in 1..n /\ h[2] \in May(h[1])
    /\ \A r \in Board : <<0, r>> \in s.held
    /\ \A i \in 1..n : \A r \in Whole(i) : <<i, r>> \in s.held
    /\ \A w \in s.wrong : KnownWrong(w)
Clean(s, busy) ==
    /\ s \in Kernels
    /\ \A h \in s.held : h[2] \in KnownLeaks \/ (h[1] \in busy /\ h[2] \in {"table"} \cup Procs)
    /\ \A w \in s.wrong : KnownWrong(w)

(* Unregistering with PnP, of a driver that is registered if it thinks so, *)
(* takes nothing else away.                                                *)
LEMMA PnpExitShape ==
    ASSUME NEW s \in Kernels, NEW registered \in {0, 1},
           registered = 1 <=> <<0, "pnp">> \in s.held
    PROVE  /\ PnpExit(s, registered) \in Kernels /\ PnpExit(s, registered).wrong = s.wrong
           /\ PnpExit(s, registered).held = s.held \ {<<0, "pnp">>}
<1>1. CASE registered = 1
  <2>1. {"pnp"} \in SUBSET Names /\ \A r \in {"pnp"} : <<0, r>> \in s.held
    BY <1>1 DEF Names
  <2>2. Returned(s, Put(s, 0, {"pnp"}), 0, {"pnp"})
    BY <2>1, PutReturned
  <2>3. {0} \X {"pnp"} = {<<0, "pnp">>}
    OBVIOUS
  <2> QED
    BY <1>1, <2>2, <2>3 DEF PnpExit, Returned
<1>2. CASE registered # 1
  BY <1>2 DEF PnpExit
<1> QED
  BY <1>1, <1>2

(* The drivers that set up devices without a PCI board *)
Plain == {"core", "virt", "isa", "mem", "mscan", "peak_dng", "serial"}

(* The exit functions of these drivers, and the error exits of their init  *)
(* functions, leave nothing but known leaks and the entries of busy        *)
(* devices.                                                                *)
LEMMA ExitDevicesClean ==
    ASSUME drv \in Plain, NEW n \in Nat, drv = "serial" => n = 0, NEW s, Loaded(s, n),
           NEW busy, pnp \in {0, 1}, pnp = 1 <=> <<0, "pnp">> \in s.held
    PROVE  Clean(ExitDevices(s, n, busy), busy)
<1> DEFINE after == [i \in 1..n |-> ExitOne(s, i, i \in busy)]
           H == {h \in s.held : \A i \in 1..n : h \in after[i].held}
           W == s.wrong \cup UNION {after[i].wrong : i \in 1..n}
           e == [held |-> H, wrong |-> W]
<1>1. /\ s \in Kernels /\ \A i \in 1..n : \A r \in Whole(i) : <<i, r>> \in s.held
      /\ \A w \in s.wrong : KnownWrong(w)
  BY DEF Loaded
<1>2. ASSUME NEW i \in 1..n PROVE Exited(s, after[i], i, i \in busy)
  <2>1. drv \in {"core", "virt", "isa", "mem", "mscan", "peak_dng"}
    BY DEF Plain
  <2>2. i \in Nat /\ (i \in busy) \in BOOLEAN
    OBVIOUS
  <2>3. Exited(s, ExitOne(s, i, i \in busy), i, i \in busy)
    BY <1>1, <2>1, <2>2, ExitOneShape
  <2>4. after[i] = ExitOne(s, i, i \in busy)
    OBVIOUS
  <2> QED
    BY <2>3, <2>4
<1>3. ExitDevices(s, n, busy) = PnpExit(e, pnp)
  BY DEF ExitDevices
<1> HIDE DEF after
<1>4. \A w \in W : w \in Nat \X Names /\ KnownWrong(w)
  <2>1. ASSUME NEW i \in 1..n, NEW w \in after[i].wrong PROVE w \in Nat \X Names /\ KnownWrong(w)
    BY <1>1, <1>2 DEF Exited, Kernels, KnownWrong
  <2>2. \A w \in s.wrong : w \in Nat \X Names
    BY <1>1 DEF Kernels
  <2> QED
    BY <1>1, <2>1, <2>2
<1>5. H \subseteq s.held /\ H \in SUBSET (Nat \X Names)
  BY <1>1 DEF Kernels
<1>6. ASSUME NEW i \in 1..n, NEW h \in H, h[1] = i, h[2] \in May(i)
      PROVE  h[2] \in KnownLeaks \/ (i \in busy /\ h[2] \in {"table"} \cup Procs)
  <2>1. h \in after[i].held /\ h = <<i, h[2]>>
    BY <1>5, <1>6
  <2> QED
    BY <1>2, <1>6, <2>1 DEF Exited
<1> HIDE DEF H, W
<1>7. e \in Kernels /\ e.held = H /\ e.wrong = W
  BY <1>4, <1>5 DEF Kernels
<1> HIDE DEF e
<1>8. /\ PnpExit(e, pnp) \in Kernels /\ PnpExit(e, pnp).wrong = W
      /\ PnpExit(e, pnp).held = H \ {<<0, "pnp">>}
  <2>1. <<0, "pnp">> \in H <=> <<0, "pnp">> \in s.held
    BY <1>2, <1>5 DEF Exited, H
  <2> QED
    BY <1>7, <2>1, PnpExitShape
<1>9. PnpBoard \subseteq {"pnp"}
  BY DEF Plain, PnpBoard, Board
<1>10. ASSUME NEW h \in PnpExit(e, pnp).held
       PROVE  h[2] \in KnownLeaks \/ (h[1] \in busy /\ h[2] \in {"table"} \cup Procs)
  <2>1. h \in H /\ h \in s.held /\ h # <<0, "pnp">> /\ h = <<h[1], h[2]>>
    BY <1>5, <1>8
  <2>2. \/ h[2] \in KnownLeaks
        \/ h[1] = 0 /\ h[2] \in PnpBoard
        \/ h[1] \in 1..n /\ h[2] \in May(h[1])
    BY <2>1 DEF Loaded
  <2>3. ~(h[1] = 0 /\ h[2] \in PnpBoard)
    BY <1>9, <2>1
  <2> QED
    BY <1>6, <2>1, <2>2, <2>3
<1> QED
  BY <1>3, <1>4, <1>8, <1>10 DEF Clean

-----------------------------------------------------------------------------
(* The PCI boards.                                                         *)

(* What rtcan_peak_pci_del_chan gives back from case `step' on *)
LEMMA PeakPutsElem ==
    ASSUME NEW c \in {1, 2}, NEW step \in Nat, NEW r
    PROVE  r \in PeakPuts(c, step) <=>
              \/ r = "pita" /\ 5 <= step
              \/ r = "base" /\ 4 <= step
              \/ r = "conf" /\ 3 <= step /\ c # 2
              \/ r = "dev" /\ 2 <= step
<1> DEFINE P(q) == q[1] <= step /\ ~(c = 2 /\ q[2] = "conf") /\ r = q[2]
<1>1. r \in PeakPuts(c, step) <=> \E q \in PeakSteps : P(q)
  BY DEF PeakPuts
<1>2. (\E q \in PeakSteps : P(q)) <=>
         P(<<5, "pita">>) \/ P(<<4, "base">>) \/ P(<<3, "conf">>) \/ P(<<2, "dev">>)
  BY DEF PeakSteps
<1>3. /\ P(<<5, "pita">>) <=> r = "pita" /\ 5 <= step
      /\ P(<<4, "base">>) <=> r = "base" /\ 4 <= step
      /\ P(<<3, "conf">>) <=> r = "conf" /\ 3 <= step /\ c # 2
      /\ P(<<2, "dev">>) <=> r = "dev" /\ 2 <= step
  OBVIOUS
<1> QED
  BY <1>1, <1>2, <1>3

(* rtcan_peak_pci_del_chan gives back what the channel has, and finds the  *)
(* master's mapping of the configuration space still there.                *)
LEMMA PeakDelChanShape ==
    ASSUME NEW s \in Kernels, NEW c \in {1, 2}, NEW busy \in BOOLEAN, drv = "peak_pci",
           \A r \in Whole(c) : <<c, r>> \in s.held, <<1, "conf">> \in s.held
    PROVE  Ended(s, PeakDelChan(s, c, busy), c, {"irq"} \cup PeakPuts(c, 5), busy)
<1> DEFINE u == SjaUnregister(s, c, {<<c, "base">>}, busy)
           a == Access(u, 1, {"conf"})
           m == PeakPuts(c, 5)
<1>1. Whole(c) = {"dev", "base", "pita", "irq", "table"} \cup (IF c = 2 THEN {} ELSE {"conf"})
  BY DEF Whole
<1>2. m = IF c = 2 THEN {"dev", "base", "pita"} ELSE {"dev", "base", "pita", "conf"}
  <2>1. ASSUME NEW r
        PROVE  r \in m <=> r \in IF c = 2 THEN {"dev", "base", "pita"}
                                 ELSE {"dev", "base", "pita", "conf"}
    BY PeakPutsElem
  <2> QED
    BY <2>1
<1>3. PeakDelChan(s, c, busy) = Put(a, c, m)
  BY DEF PeakDelChan
<1>4. Ended(s, u, c, {"irq"}, busy)
  <2>1. {<<c, "base">>} \in SUBSET s.held /\ \A r \in {"irq", "dev", "table"} : <<c, r>> \in s.held
    BY <1>1
  <2> QED
    BY <2>1, SjaUnregisterShape
<1>5. m \in SUBSET Names /\ {"conf"} \in SUBSET Names /\ {"irq"} \in SUBSET Names
  BY <1>2 DEF Names
<1>6. \A r \in m : <<c, r>> \in s.held /\ r \notin {"irq"} \cup {"table"} \cup Procs
  BY <1>1, <1>2 DEF Procs
<1> HIDE DEF u, m
<1>7. u \in Kernels /\ <<1, "conf">> \in u.held
  BY <1>4 DEF Ended, Procs
<1>8. a \in Kernels /\ a.held = u.held /\ a.wrong = u.wrong
  BY <1>5, <1>7, AccessHeld
<1> HIDE DEF a
<1>9. Ended(s, a, c, {"irq"}, busy)
  BY <1>4, <1>8 DEF Ended
<1>10. Ended(s, Put(a, c, m), c, {"irq"} \cup m, busy)
  BY <1>5, <1>6, <1>9, EndedPut
<1> QED
  BY <1>3, <1>10 DEF m

(* After its end a channel has nothing left but its entries if it is busy, *)
(* and what others hold is untouched.                                      *)
ChannelEnded(s, t, c, busy) ==
    /\ t \in Kernels
    /\ \A w \in t.wrong : w \in s.wrong \/ w[2] = "stale"
    /\ \A h \in t.held : h \in s.held
    /\ \A h \in s.held : h[1] # c => h \in t.held
    /\ \A h \in t.held : h[1] = c /\ h[2] \in May(c) => busy /\ h[2] \in {"table"} \cup Procs

(* rtcan_peak_pci_del_chan ends a channel. *)
LEMMA PeakChannelEnded ==
    ASSUME NEW s \in Kernels, NEW c \in {1, 2}, NEW busy \in BOOLEAN, drv = "peak_pci",
           \A r \in Whole(c) : <<c, r>> \in s.held, <<1, "conf">> \in s.held
    PROVE  ChannelEnded(s, PeakDelChan(s, c, busy), c, busy)
<1> DEFINE t == PeakDelChan(s, c, busy)
           m == {"irq"} \cup PeakPuts(c, 5)
           lost == IF busy THEN {} ELSE {"table"} \cup Procs
<1>1. /\ t \in Kernels /\ t.held = s.held \ ({c} \X (m \cup lost))
      /\ \A w \in t.wrong : w \in s.wrong \/ w[2] = "stale"
  BY PeakDelChanShape DEF Ended
<1>2. May(c) \subseteq m \cup {"table"} \cup Procs
  <2>1. \A r \in {"dev", "base", "pita"} : r \in PeakPuts(c, 5)
    BY PeakPutsElem
  <2>2. c # 2 => "conf" \in PeakPuts(c, 5)
    BY PeakPutsElem
  <2> HIDE DEF m
  <2>3. May(c) \subseteq {"dev", "base", "pita", "irq", "table"} \cup Procs
                         \cup (IF c = 2 THEN {} ELSE {"conf"})
    BY DEF May, Whole
  <2>4. \A r \in {"dev", "base", "pita", "irq"} \cup (IF c = 2 THEN {} ELSE {"conf"}) : r \in m
    BY <2>1, <2>2 DEF m
  <2> QED
    BY <2>3, <2>4
<1>3. s.held \in SUBSET (Nat \X Names)
  BY DEF Kernels
<1>4. ~busy => lost = {"table"} \cup Procs
  OBVIOUS
<1> HIDE DEF t, m, lost
<1>5. ASSUME NEW h \in t.held, h[1] = c, h[2] \in May(c)
      PROVE  busy /\ h[2] \in {"table"} \cup Procs
  <2>1. h = <<c, h[2]>> /\ h \notin {c} \X (m \cup lost)
    BY <1>1, <1>3, <1>5
  <2>2. h[2] \notin m \cup lost
    BY <2>1
  <2> QED
    BY <1>2, <1>4, <1>5, <2>2
<1> QED
  BY <1>1, <1>5 DEF ChannelEnded, t

(* What is left to show once the board's resources are given back *)
LEMMA PutBoard ==
    ASSUME NEW t \in Kernels, NEW rs \in SUBSET Names, \A r \in rs : <<0, r>> \in t.held,
           NEW busy, \A w \in t.wrong : KnownWrong(w),
           \A h \in t.held : \/ h[2] \in KnownLeaks
                             \/ h[1] \in busy /\ h[2] \in {"table"} \cup Procs
                             \/ h[1] = 0 /\ h[2] \in rs
    PROVE  Clean(Put(t, 0, rs), busy)
<1> DEFINE p == Put(t, 0, rs)
<1>1. Returned(t, p, 0, rs)
  BY PutReturned
<1> HIDE DEF p
<1>2. p \in Kernels /\ p.held = t.held \ ({0} \X rs) /\ p.wrong = t.wrong
  BY <1>1 DEF Returned
<1>3. ASSUME NEW h \in p.held
      PROVE  h[2] \in KnownLeaks \/ (h[1] \in busy /\ h[2] \in {"table"} \cup Procs)
  <2>1. h \in t.held /\ h \notin {0} \X rs /\ h = <<h[1], h[2]>>
    BY <1>2 DEF Kernels
  <2>2. ~(h[1] = 0 /\ h[2] \in rs)
    BY <2>1
  <2> QED
    BY <2>1, <2>2
<1> QED
  BY <1>2, <1>3 DEF Clean, p

(* The constants of the PEAK PCI driver *)
LEMMA PeakValues ==
    ASSUME drv = "peak_pci"
    PROVE  /\ Board = {"pci", "regions"} /\ PnpBoard = {"pci", "regions"}
           /\ KnownLeaks = {"pci"} /\ "conf" \in Whole(1)
           /\ {"regions"} \in SUBSET Names /\ {"regions", "pci"} \in SUBSET Names
<1>1. "conf" \in Whole(1)
  BY DEF Whole
<1> QED
  BY <1>1 DEF Board, PnpBoard, KnownLeaks, Names

(* The error exit of peak_pci_init_one leaves known leaks only. *)
LEMMA PeakCleanupClean ==
    ASSUME drv = "peak_pci", NEW c \in {1, 2}, NEW s, Loaded(s, c - 1), NEW busy
    PROVE  Clean(PeakCleanup(s, c, 1 \in busy), busy)
<1> DEFINE d == PeakDelChan(s, 1, 1 \in busy)
           b == IF c = 2 THEN d ELSE s
<1>1. /\ s \in Kernels /\ \A w \in s.wrong : KnownWrong(w)
      /\ \A h \in s.held : \/ h[2] \in KnownLeaks
                           \/ h[1] = 0 /\ h[2] \in PnpBoard
                           \/ h[1] \in 1..(c - 1) /\ h[2] \in May(h[1])
      /\ \A r \in Board : <<0, r>> \in s.held
      /\ \A i \in 1..(c - 1) : \A r \in Whole(i) : <<i, r>> \in s.held
  BY DEF Loaded
<1>2. PeakCleanup(s, c, 1 \in busy) = Put(b, 0, {"regions"})
  BY DEF PeakCleanup
<1>3. ASSUME c = 2 PROVE ChannelEnded(s, d, 1, 1 \in busy)
  <2>1. 1 \in 1..(c - 1)
    BY <1>3
  <2>2. \A r \in Whole(1) : <<1, r>> \in s.held
    BY <1>1, <2>1
  <2>3. <<1, "conf">> \in s.held
    BY <2>2, PeakValues
  <2>4. (1 \in busy) \in BOOLEAN /\ 1 \in {1, 2}
    OBVIOUS
  <2> QED
    BY <1>1, <2>2, <2>3, <2>4, PeakChannelEnded
<1> HIDE DEF d
<1>4. b \in Kernels /\ (\A w \in b.wrong : KnownWrong(w)) /\ <<0, "regions">> \in b.held
  <2>1. CASE c = 2
    BY <1>1, <1>3, <2>1, PeakValues DEF ChannelEnded, KnownWrong
  <2>2. CASE c # 2
    BY <1>1, <2>2, PeakValues
  <2> QED
    BY <2>1, <2>2
<1>5. ASSUME NEW h \in b.held
      PROVE  \/ h[2] \in KnownLeaks
             \/ h[1] \in busy /\ h[2] \in {"table"} \cup Procs
             \/ h[1] = 0 /\ h[2] \in {"regions"}
  <2>1. h \in s.held
    BY <1>3, <1>5 DEF ChannelEnded
  <2>2. CASE h[1] = 0 /\ h[2] \in PnpBoard
    BY <2>2, PeakValues
  <2>3. CASE h[1] \in 1..(c - 1) /\ h[2] \in May(h[1])
    <3>1. c = 2 /\ h[1] = 1
      BY <2>3
    <3> QED
      BY <1>3, <1>5, <2>3, <3>1 DEF ChannelEnded
  <2> QED
    BY <1>1, <2>1, <2>2, <2>3
<1> HIDE DEF b
<1>6. {"regions"} \in SUBSET Names
  BY PeakValues
<1>7. \A r \in {"regions"} : <<0, r>> \in b.held
  BY <1>4
<1>8. Clean(Put(b, 0, {"regions"}), busy)
  BY <1>4, <1>5, <1>6, <1>7, PutBoard
<1> QED
  BY <1>2, <1>8

(* peak_pci_remove_one leaves known leaks and the entries of busy devices. *)
(* The slave uses the master's mapping until its end, so that it goes      *)
(* first.                                                                  *)
LEMMA PeakRemoveClean ==
    ASSUME drv = "peak_pci", NEW s, Loaded(s, 2), NEW busy
    PROVE  Clean(PeakRemove(s, busy), busy)
<1> DEFINE d == PeakDelChan(s, 2, 2 \in busy)
           b == PeakDelChan(d, 1, 1 \in busy)
<1>0. /\ (1 \in busy) \in BOOLEAN /\ (2 \in busy) \in BOOLEAN /\ 1 \in {1, 2} /\ 2 \in {1, 2}
      /\ 1 \in 1..2 /\ 2 \in 1..2
  OBVIOUS
<1>1. /\ s \in Kernels /\ \A w \in s.wrong : KnownWrong(w)
      /\ \A h \in s.held : \/ h[2] \in KnownLeaks
                           \/ h[1] = 0 /\ h[2] \in PnpBoard
                           \/ h[1] \in 1..2 /\ h[2] \in May(h[1])
      /\ \A r \in Board : <<0, r>> \in s.held
      /\ \A i \in 1..2 : \A r \in Whole(i) : <<i, r>> \in s.held
  BY DEF Loaded
<1>2. PeakRemove(s, busy) = Put(b, 0, {"regions", "pci"})
  BY DEF PeakRemove
<1>3. ChannelEnded(s, d, 2, 2 \in busy)
  <2>1. \A r \in Whole(2) : <<2, r>> \in s.held
    BY <1>0, <1>1
  <2>2. <<1, "conf">> \in s.held
    BY <1>0, <1>1, PeakValues
  <2> QED
    BY <1>0, <1>1, <2>1, <2>2, PeakChannelEnded
<1> HIDE DEF d
<1>4. ChannelEnded(d, b, 1, 1 \in busy)
  <2>1. \A r \in Whole(1) : <<1, r>> \in d.held
    <3>1. \A r \in Whole(1) : <<1, r>> \in s.held
      BY <1>0, <1>1
    <3>2. \A h \in s.held : h[1] # 2 => h \in d.held
      BY <1>3 DEF ChannelEnded
    <3>3. ASSUME NEW r \in Whole(1) PROVE <<1, r>> \in d.held
      <4>1. <<1, r>>[1] # 2
        OBVIOUS
      <4> QED
        BY <3>1, <3>2, <4>1
    <3> QED
      BY <3>3
  <2>2. d \in Kernels /\ <<1, "conf">> \in d.held
    BY <1>3, <2>1, PeakValues DEF ChannelEnded
  <2> QED
    BY <1>0, <2>1, <2>2, PeakChannelEnded
<1> HIDE DEF b
<1>5. b \in Kernels /\ \A w \in b.wrong : KnownWrong(w)
  BY <1>1, <1>3, <1>4 DEF ChannelEnded, KnownWrong
<1>6. \A r \in {"regions", "pci"} : <<0, r>> \in b.held
  <2>1. \A r \in {"regions", "pci"} : <<0, r>> \in s.held
    BY <1>1, PeakValues
  <2>2. \A r \in {"regions", "pci"} : <<0, r>> \in d.held
    BY <1>3, <2>1 DEF ChannelEnded
  <2> QED
    BY <1>4, <2>2 DEF ChannelEnded
<1>7. ASSUME NEW h \in b.held
      PROVE  \/ h[2] \in KnownLeaks
             \/ h[1] \in busy /\ h[2] \in {"table"} \cup Procs
             \/ h[1] = 0 /\ h[2] \in {"regions", "pci"}
  <2>1. h \in d.held /\ h \in s.held
    BY <1>3, <1>4, <1>7 DEF ChannelEnded
  <2>2. CASE h[1] = 0 /\ h[2] \in PnpBoard
    BY <2>2, PeakValues
  <2>3. CASE h[1] \in 1..2 /\ h[2] \in May(h[1])
    <3>1. h[1] = 1 \/ h[1] = 2
      BY <2>3
    <3>2. CASE h[1] = 1
      BY <1>4, <1>7, <2>3, <3>2 DEF ChannelEnded
    <3>3. CASE h[1] = 2
      BY <1>3, <2>1, <2>3, <3>3 DEF ChannelEnded
    <3> QED
      BY <3>1, <3>2, <3>3
  <2> QED
    BY <1>1, <2>1, <2>2, <2>3
<1>8. {"regions", "pci"} \in SUBSET Names
  BY PeakValues
<1>9. Clean(Put(b, 0, {"regions", "pci"}), busy)
  BY <1>5, <1>6, <1>7, <1>8, PutBoard
<1> QED
  BY <1>2, <1>9

(* The constants of the IXXAT PCI driver *)
LEMMA IxxatValues ==
    ASSUME drv = "ixxat_pci"
    PROVE  /\ Board = {"pci", "regions", "base"} /\ PnpBoard = Board
           /\ KnownLeaks = {"pci", "regions", "intcsr", "base"}
           /\ \A c : /\ Whole(c) = {"dev", "intcsr", "irq", "table"}
                     /\ May(c) = Whole(c) \cup Procs
           /\ {"regions", "pci"} \in SUBSET Names /\ {"base", "regions"} \in SUBSET Names
           /\ {"base"} \in SUBSET Names /\ {"dev"} \in SUBSET Names /\ {"irq"} \in SUBSET Names
           /\ {"intcsr", "dev"} \in SUBSET Names
<1>1. ASSUME NEW c PROVE Whole(c) = {"dev", "intcsr", "irq", "table"}
  BY DEF Whole
<1>2. ASSUME NEW c PROVE May(c) = Whole(c) \cup Procs
  BY DEF May
<1>3. Board = {"pci", "regions", "base"} /\ PnpBoard = Board
  BY DEF Board, PnpBoard
<1>4. KnownLeaks = {"pci", "regions", "intcsr", "base"}
  BY DEF KnownLeaks
<1>5. /\ {"regions", "pci"} \in SUBSET Names /\ {"base", "regions"} \in SUBSET Names
      /\ {"base"} \in SUBSET Names /\ {"dev"} \in SUBSET Names /\ {"irq"} \in SUBSET Names
      /\ {"intcsr", "dev"} \in SUBSET Names
  BY DEF Names
<1> QED
  BY <1>1, <1>2, <1>3, <1>4, <1>5

(* rtcan_ixxat_pci_del_chan: the interrupt bit may stay. *)
IxxatEnded(s, t, c, slave, busy) ==
    /\ t \in Kernels
    /\ \A w \in t.wrong : w \in s.wrong \/ w[2] = "stale" \/ w = <<2, "reset">>
    /\ \A h \in t.held : h \in s.held
    /\ \A h \in s.held : h[1] # c /\ h # <<2, "intcsr">> /\ (slave => h # <<0, "base">>)
                            => h \in t.held
    /\ \A h \in t.held :
          h[1] = c => h[2] \notin {"irq", "dev"} /\ (busy \/ h[2] \notin {"table"} \cup Procs)

(* rtcan_ixxat_pci_del_chan ends a channel, with or without a slave. *)
LEMMA IxxatDelChanShape ==
    ASSUME NEW s \in Kernels, NEW c \in {1, 2}, NEW slave \in BOOLEAN, NEW busy \in BOOLEAN,
           drv = "ixxat_pci", \A r \in Whole(c) : <<c, r>> \in s.held, <<0, "base">> \in s.held
    PROVE  IxxatEnded(s, IxxatDelChan(s, c, slave, busy), c, slave, busy)
<1> DEFINE u == SjaUnregister(s, c, {<<0, "base">>}, busy)
           a == Access(u, 0, {"base"})
           lost == IF busy THEN {} ELSE {"table"} \cup Procs
           x == Put(a, c, {"intcsr", "dev"})
           b == [a EXCEPT !.held = @ \ {<<2, "intcsr">>}]
           rs == IF c = 2 THEN {"reset"} ELSE {}
           d == Access(b, c, rs)
<1>1. \A r \in {"dev", "intcsr", "irq", "table"} : <<c, r>> \in s.held
  BY IxxatValues
<1>2. Ended(s, u, c, {"irq"}, busy)
  <2>1. {<<0, "base">>} \in SUBSET s.held /\ \A r \in {"irq", "dev", "table"} : <<c, r>> \in s.held
    BY <1>1
  <2> QED
    BY <2>1, SjaUnregisterShape
<1>3. IxxatDelChan(s, c, slave, busy) = IF slave THEN Put(x, 0, {"base"}) ELSE Put(d, c, {"dev"})
  BY DEF IxxatDelChan
<1> HIDE DEF u
<1>4. /\ u \in Kernels /\ u.held = s.held \ ({c} \X ({"irq"} \cup lost))
      /\ \A w \in u.wrong : w \in s.wrong \/ w[2] = "stale"
  BY <1>2 DEF Ended
<1>5. {"irq"} \cup lost \subseteq {"irq", "table"} \cup Procs
  OBVIOUS
<1>6. ~busy => lost = {"table"} \cup Procs
  OBVIOUS
<1> HIDE DEF lost
<1>7. a \in Kernels /\ a.held = u.held /\ a.wrong = u.wrong
  <2>1. <<0, "base">> \in u.held
    BY <1>4
  <2> QED
    BY <1>4, <2>1, IxxatValues, AccessHeld
<1>8. /\ <<0, "base">> \in a.held
      /\ \A r \in {"intcsr", "dev"} : <<c, r>> \in a.held
  BY <1>1, <1>4, <1>5, <1>7 DEF Procs
<1> HIDE DEF a
<1>9. ASSUME NEW h \in s.held
      PROVE  /\ h[1] # c => h \in a.held
             /\ h \in a.held /\ h[1] = c =>
                   h[2] # "irq" /\ (busy \/ h[2] \notin {"table"} \cup Procs)
  <2>1. h = <<h[1], h[2]>>
    BY DEF Kernels
  <2> QED
    BY <1>4, <1>6, <1>7, <2>1
<1>10. a.held \subseteq s.held
  BY <1>4, <1>7
<1>11. CASE slave
  <2> DEFINE y == Put(x, 0, {"base"})
  <2>1. Returned(a, x, c, {"intcsr", "dev"})
    BY <1>7, <1>8, IxxatValues, PutReturned
  <2> HIDE DEF x
  <2>2. x \in Kernels /\ x.held = a.held \ ({c} \X {"intcsr", "dev"}) /\ x.wrong = a.wrong
    BY <2>1 DEF Returned
  <2>3. \A r \in {"base"} : <<0, r>> \in x.held
    BY <1>8, <2>2
  <2>4. Returned(x, y, 0, {"base"})
    BY <2>2, <2>3, IxxatValues, PutReturned
  <2> HIDE DEF y
  <2>5. y \in Kernels /\ y.held = x.held \ ({0} \X {"base"}) /\ y.wrong = x.wrong
    BY <2>4 DEF Returned
  <2>6. ASSUME NEW h \in s.held
        PROVE  /\ h[1] # c /\ h # <<0, "base">> => h \in y.held
               /\ h \in y.held /\ h[1] = c => h \in a.held /\ h[2] # "dev"
    <3>1. h = <<h[1], h[2]>>
      BY DEF Kernels
    <3> QED
      BY <1>9, <2>2, <2>5, <3>1
  <2>7. y.held \subseteq s.held /\ \A w \in y.wrong : w \in s.wrong \/ w[2] = "stale"
    BY <1>4, <1>7, <1>10, <2>2, <2>5
  <2>8. IxxatEnded(s, y, c, slave, busy)
    BY <1>9, <1>11, <2>5, <2>6, <2>7 DEF IxxatEnded
  <2> QED
    BY <1>3, <1>11, <2>8 DEF y
<1>12. CASE ~slave
  <2> DEFINE y == Put(d, c, {"dev"})
             H == a.held \ {<<2, "intcsr">>}
  <2>1. b \in Kernels /\ b.held = H /\ b.wrong = a.wrong
    <3>1. a.held \in SUBSET (Nat \X Names) /\ a.wrong \in SUBSET (Nat \X Names)
      BY <1>7 DEF Kernels
    <3>2. \A G \in SUBSET (Nat \X Names) :
             LET t == [a EXCEPT !.held = G] IN t \in Kernels /\ t.held = G /\ t.wrong = a.wrong
      BY <1>7, <3>1 DEF Kernels
    <3>3. H \in SUBSET (Nat \X Names) /\ b = [a EXCEPT !.held = H]
      BY <3>1
    <3> HIDE DEF H, b
    <3> QED
      BY <3>2, <3>3
  <2> HIDE DEF b
  <2>0. /\ d \in Kernels /\ d.held = b.held
        /\ \A w \in d.wrong : w \in b.wrong \/ w = <<2, "reset">>
    <3>1. rs \in SUBSET Names /\ c \in Nat
      BY DEF Names
    <3>2. d \in Kernels /\ d.held = b.held /\ d.wrong = b.wrong \cup (({c} \X rs) \ b.held)
      BY <2>1, <3>1, AccessShape
    <3>3. \A w \in {c} \X rs : w = <<2, "reset">>
      OBVIOUS
    <3> QED
      BY <3>2, <3>3
  <2> HIDE DEF d
  <2>2. \A r \in {"dev"} : <<c, r>> \in d.held
    BY <1>8, <2>0, <2>1
  <2>3. Returned(d, y, c, {"dev"})
    BY <2>0, <2>2, IxxatValues, PutReturned
  <2> HIDE DEF y
  <2>4. y \in Kernels /\ y.held = b.held \ ({c} \X {"dev"}) /\ y.wrong = d.wrong
    BY <2>0, <2>3 DEF Returned
  <2>5. ASSUME NEW h \in s.held
        PROVE  /\ h[1] # c /\ h # <<2, "intcsr">> => h \in y.held
               /\ h \in y.held /\ h[1] = c => h \in a.held /\ h[2] # "dev"
    <3>1. h = <<h[1], h[2]>>
      BY DEF Kernels
    <3> QED
      BY <1>9, <2>1, <2>4, <3>1
  <2>6. /\ y.held \subseteq s.held
        /\ \A w \in y.wrong : w \in s.wrong \/ w[2] = "stale" \/ w = <<2, "reset">>
    BY <1>4, <1>7, <1>10, <2>0, <2>1, <2>4
  <2>7. IxxatEnded(s, y, c, slave, busy)
    BY <1>9, <1>12, <2>4, <2>5, <2>6 DEF IxxatEnded
  <2> QED
    BY <1>3, <1>12, <2>7 DEF y
<1> QED
  BY <1>11, <1>12

(* The error exit of ixxat_pci_init_one: the mapping may be given back     *)
(* twice.                                                                  *)
LEMMA IxxatCleanupClean ==
    ASSUME drv = "ixxat_pci", NEW c \in {1, 2}, NEW s, Loaded(s, c - 1), NEW busy, NEW at
    PROVE  Clean(IxxatCleanup(s, c, at, 1 \in busy), busy)
<1> DEFINE d == IxxatDelChan(s, 1, at # "dev", 1 \in busy)
           b == IF c = 2 THEN d ELSE s
           rs == {"base", "regions"}
           p == Put(b, 0, rs)
<1>1. /\ s \in Kernels /\ \A w \in s.wrong : KnownWrong(w)
      /\ \A h \in s.held : \/ h[2] \in KnownLeaks
                           \/ h[1] = 0 /\ h[2] \in PnpBoard
                           \/ h[1] \in 1..(c - 1) /\ h[2] \in May(h[1])
      /\ \A r \in Board : <<0, r>> \in s.held
      /\ \A i \in 1..(c - 1) : \A r \in Whole(i) : <<i, r>> \in s.held
  BY DEF Loaded
<1>2. IxxatCleanup(s, c, at, 1 \in busy) = p
  BY DEF IxxatCleanup
<1>3. ASSUME c = 2 PROVE IxxatEnded(s, d, 1, at # "dev", 1 \in busy)
  <2>1. 1 \in 1..(c - 1)
    BY <1>3
  <2>2. \A r \in Whole(1) : <<1, r>> \in s.held
    BY <1>1, <2>1
  <2>3. <<0, "base">> \in s.held
    BY <1>1, IxxatValues
  <2>4. (1 \in busy) \in BOOLEAN /\ 1 \in {1, 2} /\ (at # "dev") \in BOOLEAN
    OBVIOUS
  <2> QED
    BY <1>1, <2>2, <2>3, <2>4, IxxatDelChanShape
<1> HIDE DEF d
<1>4. b \in Kernels /\ (\A w \in b.wrong : KnownWrong(w)) /\ <<0, "regions">> \in b.held
  <2>0. <<0, "regions">> \in s.held
    BY <1>1, IxxatValues
  <2>1. CASE c = 2
    BY <1>1, <1>3, <2>0, <2>1 DEF IxxatEnded, KnownWrong
  <2>2. CASE c # 2
    BY <1>1, <2>0, <2>2
  <2> QED
    BY <2>1, <2>2
<1>5. ASSUME NEW h \in b.held
      PROVE  h[2] \in KnownLeaks \/ (h[1] \in busy /\ h[2] \in {"table"} \cup Procs)
  <2>1. h \in s.held
    BY <1>3, <1>5 DEF IxxatEnded
  <2>2. CASE h[1] = 0 /\ h[2] \in PnpBoard
    BY <2>2, IxxatValues
  <2>3. CASE h[1] \in 1..(c - 1) /\ h[2] \in May(h[1])
    <3>1. c = 2 /\ h[1] = 1
      BY <2>3
    <3>2. h[2] \notin {"irq", "dev"} /\ (1 \in busy \/ h[2] \notin {"table"} \cup Procs)
      BY <1>3, <1>5, <3>1 DEF IxxatEnded
    <3>3. h[2] \in {"dev", "intcsr", "irq", "table"} \cup Procs
      BY <2>3, IxxatValues
    <3>4. "intcsr" \in KnownLeaks
      BY IxxatValues
    <3> QED
      BY <3>1, <3>2, <3>3, <3>4
  <2> QED
    BY <1>1, <2>1, <2>2, <2>3
<1> HIDE DEF b
<1>6. rs \in SUBSET Names
  BY IxxatValues
<1>7. /\ p \in Kernels /\ p.held = b.held \ ({0} \X rs)
      /\ p.wrong = b.wrong \cup (({0} \X rs) \ b.held)
  BY <1>4, <1>6, PutShape
<1> HIDE DEF p
<1>8. ASSUME NEW w \in p.wrong PROVE KnownWrong(w)
  <2>1. CASE w \in b.wrong
    BY <1>4, <2>1
  <2>2. CASE w \in ({0} \X rs) \ b.held
    <3>1. w = <<0, "base">>
      BY <1>4, <2>2
    <3> QED
      BY <3>1 DEF KnownWrong
  <2> QED
    BY <1>7, <2>1, <2>2
<1>9. \A h \in p.held : h \in b.held
  BY <1>7
<1>10. Clean(p, busy)
  BY <1>5, <1>7, <1>8, <1>9 DEF Clean
<1> QED
  BY <1>2, <1>10

(* ixxat_pci_remove_one leaves known leaks and the entries of busy devices. *)
LEMMA IxxatRemoveClean ==
    ASSUME drv = "ixxat_pci", NEW n \in {1, 2}, NEW s, Loaded(s, n), NEW busy
    PROVE  Clean(IxxatRemove(s, n, busy), busy)
<1> DEFINE d == IxxatDelChan(s, 2, FALSE, 2 \in busy)
           a == IF n = 2 THEN d ELSE s
           b == IxxatDelChan(a, 1, n = 2, 1 \in busy)
           rs == {"regions", "pci"}
<1>0. /\ (1 \in busy) \in BOOLEAN /\ (2 \in busy) \in BOOLEAN /\ 1 \in {1, 2} /\ 2 \in {1, 2}
      /\ (n = 2) \in BOOLEAN /\ FALSE \in BOOLEAN /\ 1 \in 1..n
  OBVIOUS
<1>1. /\ s \in Kernels /\ \A w \in s.wrong : KnownWrong(w)
      /\ \A h \in s.held : \/ h[2] \in KnownLeaks
                           \/ h[1] = 0 /\ h[2] \in PnpBoard
                           \/ h[1] \in 1..n /\ h[2] \in May(h[1])
      /\ \A r \in Board : <<0, r>> \in s.held
      /\ \A i \in 1..n : \A r \in Whole(i) : <<i, r>> \in s.held
  BY DEF Loaded
<1>2. IxxatRemove(s, n, busy) = Put(b, 0, rs)
  BY DEF IxxatRemove
<1>3. /\ <<0, "base">> \in s.held /\ <<0, "regions">> \in s.held /\ <<0, "pci">> \in s.held
  BY <1>1, IxxatValues
<1>4. \A r \in Whole(1) : <<1, r>> \in s.held
  BY <1>0, <1>1
<1>5. ASSUME n = 2 PROVE IxxatEnded(s, d, 2, FALSE, 2 \in busy)
  <2>1. 2 \in 1..n
    BY <1>5
  <2>2. \A r \in Whole(2) : <<2, r>> \in s.held
    BY <1>1, <2>1
  <2> QED
    BY <1>0, <1>1, <1>3, <2>2, IxxatDelChanShape
<1> HIDE DEF d
<1>6. ASSUME n = 2, NEW h \in s.held, h[1] # 2 PROVE h \in d.held
  <2>1. h # <<2, "intcsr">>
    BY <1>6
  <2> QED
    BY <1>5, <1>6, <2>1 DEF IxxatEnded
<1>7. /\ a \in Kernels /\ (\A w \in a.wrong : KnownWrong(w)) /\ a.held \subseteq s.held
      /\ \A h \in s.held : h[1] # 2 => h \in a.held
  <2>1. CASE n = 2
    BY <1>1, <1>5, <1>6, <2>1 DEF IxxatEnded, KnownWrong
  <2>2. CASE n # 2
    BY <1>1, <2>2
  <2> QED
    BY <2>1, <2>2
<1>8. ASSUME NEW h \in a.held, h[1] = 2, n = 2
      PROVE  h[2] \notin {"irq", "dev"} /\ (2 \in busy \/ h[2] \notin {"table"} \cup Procs)
  BY <1>5, <1>8 DEF IxxatEnded
<1> HIDE DEF a
<1>9. ASSUME NEW r \in Whole(1) PROVE <<1, r>> \in a.held
  <2>1. <<1, r>>[1] # 2
    OBVIOUS
  <2> QED
    BY <1>4, <1>7, <2>1
<1>10. <<0, "base">> \in a.held /\ <<0, "regions">> \in a.held /\ <<0, "pci">> \in a.held
  BY <1>3, <1>7
<1>11. IxxatEnded(a, b, 1, n = 2, 1 \in busy)
  BY <1>0, <1>7, <1>9, <1>10, IxxatDelChanShape
<1> HIDE DEF b
<1>12. b \in Kernels /\ \A w \in b.wrong : KnownWrong(w)
  BY <1>7, <1>11 DEF IxxatEnded, KnownWrong
<1>13. \A r \in rs : <<0, r>> \in b.held
  BY <1>10, <1>11 DEF IxxatEnded
<1>14. ASSUME NEW h \in b.held
       PROVE  \/ h[2] \in KnownLeaks
              \/ h[1] \in busy /\ h[2] \in {"table"} \cup Procs
              \/ h[1] = 0 /\ h[2] \in rs
  <2>1. h \in a.held /\ h \in s.held
    BY <1>7, <1>11, <1>14 DEF IxxatEnded
  <2>2. CASE h[1] = 0 /\ h[2] \in PnpBoard
    BY <2>2, IxxatValues
  <2>3. CASE h[1] \in 1..n /\ h[2] \in May(h[1])
    <3>1. h[1] = 1 \/ (n = 2 /\ h[1] = 2)
      BY <2>3
    <3>2. /\ h[2] \notin {"irq", "dev"}
          /\ h[1] \in busy \/ h[2] \notin {"table"} \cup Procs
      <4>1. CASE h[1] = 1
        BY <1>11, <1>14, <4>1 DEF IxxatEnded
      <4>2. CASE n = 2 /\ h[1] = 2
        BY <1>8, <2>1, <4>2
      <4> QED
        BY <3>1, <4>1, <4>2
    <3>3. h[2] \in {"dev", "intcsr", "irq", "table"} \cup Procs
      BY <2>3, IxxatValues
    <3>4. "intcsr" \in KnownLeaks
      BY IxxatValues
    <3> QED
      BY <3>2, <3>3, <3>4
  <2> QED
    BY <1>1, <2>1, <2>2, <2>3
<1>15. rs \in SUBSET Names
  BY IxxatValues
<1> HIDE DEF rs
<1>16. Clean(Put(b, 0, rs), busy)
  BY <1>12, <1>13, <1>14, <1>15, PutBoard
<1> QED
  BY <1>2, <1>16

-----------------------------------------------------------------------------
(* The scripts of the init functions.                                      *)

(* The script of a device whose last steps are rtcan_sja1000_register's *)
LEMMA SjaScript ==
    ASSUME NEW q \in Seq(Names), NEW m \in Nat, Len(q) = m
    PROVE  LET s == q \o SjaRegister
           IN  /\ Len(s) = m + 2 /\ \A j \in 1..m : s[j] = q[j]
               /\ s[m + 1] = "irq" /\ s[m + 2] = "table"
<1> DEFINE r == SjaRegister
<1>1. r = <<"irq", "table">>
  BY DEF SjaRegister
<1>2. "irq" \in Names /\ "table" \in Names
  BY DEF Names
<1>3. r \in Seq(Names) /\ Len(r) = 2 /\ r[1] = "irq" /\ r[2] = "table"
  BY <1>1, <1>2
<1> HIDE DEF r
<1>4. /\ Len(q \o r) = Len(q) + Len(r)
      /\ \A j \in 1..(Len(q) + Len(r)) :
            (q \o r)[j] = IF j <= Len(q) THEN q[j] ELSE r[j - Len(q)]
  BY <1>3, ConcatProperties
<1>5. \A j \in 1..(m + 2) : (q \o r)[j] = IF j <= m THEN q[j] ELSE r[j - m]
  BY <1>3, <1>4
<1>6. (q \o r)[m + 1] = r[1] /\ (q \o r)[m + 2] = r[2]
  <2>1. /\ m + 1 \in 1..(m + 2) /\ ~(m + 1 <= m) /\ (m + 1) - m = 1
        /\ m + 2 \in 1..(m + 2) /\ ~(m + 2 <= m) /\ (m + 2) - m = 2
    OBVIOUS
  <2> QED
    BY <1>5, <2>1
<1>7. \A j \in 1..m : (q \o r)[j] = q[j]
  BY <1>5
<1> QED
  BY <1>3, <1>4, <1>6, <1>7 DEF r

(* Its error exits are sound when those before are, and when the callers   *)
(* give back what they had but for known leaks.                            *)
LEMMA SjaSound ==
    ASSUME NEW q \in Seq(Names), NEW m \in Nat, NEW undo, NEW L, Sound(q, m, undo, L),
           "irq" \notin Taken(q, m), "table" \notin Taken(q, m),
           NEW back \in SUBSET Taken(q, m), \A r \in Taken(q, m) : r \in back \cup L
    PROVE  /\ Sound(q \o SjaRegister, m + 2, SjaUndo(undo, back), L)
           /\ Taken(q \o SjaRegister, m + 2) \ Checks = Taken(q, m) \cup {"irq", "table"}
<1> DEFINE s == q \o SjaRegister
           u == SjaUndo(undo, back)
<1>0. Len(q) = m /\ \A j \in 1..m : q[j] \in Names
  <2>1. Len(q) = m
    BY DEF Sound
  <2> QED
    BY <2>1
<1>1. /\ Len(s) = m + 2 /\ \A j \in 1..m : s[j] = q[j]
      /\ s[m + 1] = "irq" /\ s[m + 2] = "table"
  BY <1>0, SjaScript
<1>2. Taken(SjaRegister, 2) = {"irq", "table"}
  <2>1. SjaRegister[1] = "irq" /\ SjaRegister[2] = "table"
    BY DEF SjaRegister
  <2>2. 1..2 = {1, 2}
    OBVIOUS
  <2> QED
    BY <2>1, <2>2 DEF Taken
<1>3. /\ DOMAIN u = DOMAIN undo \cup {"irq", "table"}
      /\ u["irq"] = back /\ u["table"] = {"irq"} \cup back
      /\ \A r \in DOMAIN undo : r \notin {"irq", "table"} => u[r] = undo[r]
  BY <1>2 DEF SjaUndo
<1> HIDE DEF s, u
<1>4. \A j \in 1..m : q[j] \in Taken(q, m)
  BY DEF Taken
<1>5. \A r \in Taken(q, m) : r \in Names /\ \E j \in 1..m : q[j] = r
  BY <1>0 DEF Taken
<1>6. "irq" \in Names /\ "table" \in Names /\ Names \cap Checks = {}
  BY DEF Names, Checks
<1>7. ASSUME NEW n \in 1..(m + 2) PROVE n \in 1..m \/ n = m + 1 \/ n = m + 2
  OBVIOUS
<1>8. \A n \in 1..(m + 2) : s[n] \in Names \cup Checks
  BY <1>0, <1>1, <1>6, <1>7
<1>9. ASSUME NEW n \in 1..(m + 2), s[n] \in DOMAIN u
      PROVE  /\ u[s[n]] \subseteq Names
             /\ \A r \in u[s[n]] : \E j \in 1..(n - 1) : s[j] = r
             /\ \A j \in 1..(n - 1) : s[j] \in u[s[n]] \cup Checks \cup L
  <2>1. CASE n \in 1..m
    <3>1. s[n] = q[n] /\ q[n] \notin {"irq", "table"} /\ q[n] \in DOMAIN undo
      BY <1>1, <1>3, <1>4, <1>9, <2>1
    <3>2. u[s[n]] = undo[q[n]]
      BY <1>3, <3>1
    <3>3. /\ undo[q[n]] \subseteq Names
          /\ \A r \in undo[q[n]] : \E j \in 1..(n - 1) : q[j] = r
          /\ \A j \in 1..(n - 1) : q[j] \in undo[q[n]] \cup Checks \cup L
      BY <2>1, <3>1 DEF Sound
    <3>4. \A j \in 1..(n - 1) : s[j] = q[j]
      BY <1>1, <2>1
    <3> QED
      BY <3>2, <3>3, <3>4
  <2>2. CASE n = m + 1
    <3>1. u[s[n]] = back /\ n - 1 = m
      BY <1>1, <1>3, <2>2
    <3>2. back \subseteq Names /\ \A r \in back : \E j \in 1..m : s[j] = r
      BY <1>1, <1>5
    <3>3. \A j \in 1..m : s[j] \in back \cup Checks \cup L
      BY <1>1, <1>4
    <3> QED
      BY <3>1, <3>2, <3>3
  <2>3. CASE n = m + 2
    <3>1. u[s[n]] = {"irq"} \cup back /\ n - 1 = m + 1
      BY <1>1, <1>3, <2>3
    <3>2. {"irq"} \cup back \subseteq Names
      BY <1>5, <1>6
    <3>3. ASSUME NEW r \in {"irq"} \cup back PROVE \E j \in 1..(m + 1) : s[j] = r
      <4>1. CASE r = "irq"
        BY <1>1, <4>1
      <4>2. CASE r \in back
        <5>1. PICK j \in 1..m : q[j] = r
          BY <1>5, <4>2
        <5>2. j \in 1..(m + 1) /\ s[j] = r
          BY <1>1, <5>1
        <5> QED
          BY <5>2
      <4> QED
        BY <4>1, <4>2
    <3>4. ASSUME NEW j \in 1..(m + 1) PROVE s[j] \in ({"irq"} \cup back) \cup Checks \cup L
      <4>1. j \in 1..m \/ j = m + 1
        OBVIOUS
      <4> QED
        BY <1>1, <1>4, <4>1
    <3> QED
      BY <3>1, <3>2, <3>3, <3>4
  <2> QED
    BY <1>7, <2>1, <2>2, <2>3
<1>10. Sound(s, m + 2, u, L)
  BY <1>1, <1>8, <1>9 DEF Sound
<1>11. Taken(s, m + 2) \ Checks = Taken(q, m) \cup {"irq", "table"}
  <2>1. ASSUME NEW r \in Taken(s, m + 2) PROVE r \in Taken(q, m) \cup {"irq", "table"}
    <3>1. PICK n \in 1..(m + 2) : r = s[n]
      BY DEF Taken
    <3> QED
      BY <1>1, <1>4, <1>7, <3>1
  <2>2. ASSUME NEW r \in Taken(q, m) \cup {"irq", "table"} PROVE r \in Taken(s, m + 2) \ Checks
    <3>1. r \in Names
      BY <1>5, <1>6
    <3>2. \E n \in 1..(m + 2) : r = s[n]
      <4>1. CASE r \in Taken(q, m)
        <5>1. PICK j \in 1..m : q[j] = r
          BY <1>5, <4>1
        <5>2. j \in 1..(m + 2) /\ s[j] = r
          BY <1>1, <5>1
        <5> QED
          BY <5>2
      <4>2. CASE r \in {"irq", "table"}
        <5>1. m + 1 \in 1..(m + 2) /\ m + 2 \in 1..(m + 2)
          OBVIOUS
        <5> QED
          BY <1>1, <4>2, <5>1
      <4> QED
        BY <4>1, <4>2
    <3> QED
      BY <1>6, <3>1, <3>2 DEF Taken
  <2> QED
    BY <2>1, <2>2
<1> QED
  BY <1>10, <1>11 DEF s, u

(* The virtual devices *)
LEMMA VirtScript ==
    LET q == <<"dev", "table">>
        u == [dev |-> {}, table |-> {"dev"}]
    IN  /\ q \in Seq(Names) /\ Taken(q, 2) = {"dev", "table"}
        /\ \A L : Sound(q, 2, u, L)
<1> DEFINE q == <<"dev", "table">>
           u == [dev |-> {}, table |-> {"dev"}]
<1>1. Len(q) = 2 /\ q[1] = "dev" /\ q[2] = "table"
  OBVIOUS
<1>2. DOMAIN u = {"dev", "table"} /\ u["dev"] = {} /\ u["table"] = {"dev"}
  OBVIOUS
<1>3. {"dev", "table"} \subseteq Names
  BY DEF Names
<1>4. 1..2 = {1, 2} /\ 1..(2 - 1) = {1} /\ 1..(1 - 1) = {}
  OBVIOUS
<1>5. q \in Seq(Names)
  BY <1>3
<1> HIDE DEF q, u
<1>6. Taken(q, 2) = {"dev", "table"}
  BY <1>1, <1>3, <1>4 DEF Taken
<1>7. ASSUME NEW L PROVE Sound(q, 2, u, L)
  BY <1>1, <1>2, <1>3, <1>4 DEF Sound
<1> QED
  BY <1>5, <1>6, <1>7 DEF q, u

(* The ISA boards up to rtcan_sja1000_register *)
LEMMA IsaScript ==
    LET q == <<"dev", "ports">>
        u == [dev |-> {}, ports |-> {"dev"}]
    IN  /\ q \in Seq(Names) /\ Taken(q, 2) = {"dev", "ports"}
        /\ \A L : Sound(q, 2, u, L)
<1> DEFINE q == <<"dev", "ports">>
           u == [dev |-> {}, ports |-> {"dev"}]
<1>1. Len(q) = 2 /\ q[1] = "dev" /\ q[2] = "ports"
  OBVIOUS
<1>2. DOMAIN u = {"dev", "ports"} /\ u["dev"] = {} /\ u["ports"] = {"dev"}
  OBVIOUS
<1>3. {"dev", "ports"} \subseteq Names
  BY DEF Names
<1>4. 1..2 = {1, 2} /\ 1..(2 - 1) = {1} /\ 1..(1 - 1) = {}
  OBVIOUS
<1>5. q \in Seq(Names)
  BY <1>3
<1> HIDE DEF q, u
<1>6. Taken(q, 2) = {"dev", "ports"}
  BY <1>1, <1>3, <1>4 DEF Taken
<1>7. ASSUME NEW L PROVE Sound(q, 2, u, L)
  BY <1>1, <1>2, <1>3, <1>4 DEF Sound
<1> QED
  BY <1>5, <1>6, <1>7 DEF q, u

(* The memory-mapped boards up to rtcan_sja1000_register *)
LEMMA MemScript ==
    LET q == <<"dev", "memory", "map">>
        u == [dev |-> {}, memory |-> {"dev"}, map |-> {"memory", "dev"}]
    IN  /\ q \in Seq(Names) /\ Taken(q, 3) = {"dev", "memory", "map"}
        /\ \A L : Sound(q, 3, u, L)
<1> DEFINE q == <<"dev", "memory", "map">>
           u == [dev |-> {}, memory |-> {"dev"}, map |-> {"memory", "dev"}]
<1>1. Len(q) = 3 /\ q[1] = "dev" /\ q[2] = "memory" /\ q[3] = "map"
  OBVIOUS
<1>2. /\ DOMAIN u = {"dev", "memory", "map"} /\ u["dev"] = {} /\ u["memory"] = {"dev"}
      /\ u["map"] = {"memory", "dev"}
  OBVIOUS
<1>3. {"dev", "memory", "map"} \subseteq Names
  BY DEF Names
<1>4. 1..3 = {1, 2, 3} /\ 1..(3 - 1) = {1, 2} /\ 1..(2 - 1) = {1} /\ 1..(1 - 1) = {}
  OBVIOUS
<1>5. q \in Seq(Names)
  BY <1>3
<1> HIDE DEF q, u
<1>6. Taken(q, 3) = {"dev", "memory", "map"}
  BY <1>1, <1>3, <1>4 DEF Taken
<1>7. ASSUME NEW L PROVE Sound(q, 3, u, L)
  BY <1>1, <1>2, <1>3, <1>4 DEF Sound
<1> QED
  BY <1>5, <1>6, <1>7 DEF q, u

(* The dongle up to rtcan_sja1000_register *)
LEMMA DngScript ==
    LET q == <<"dev", "ports", "parport">>
        u == [dev |-> {}, ports |-> {"dev"}]
    IN  /\ q \in Seq(Names) /\ Taken(q, 3) = {"dev", "ports", "parport"}
        /\ \A L : Sound(q, 3, u, L)
<1> DEFINE q == <<"dev", "ports", "parport">>
           u == [dev |-> {}, ports |-> {"dev"}]
<1>1. Len(q) = 3 /\ q[1] = "dev" /\ q[2] = "ports" /\ q[3] = "parport"
  OBVIOUS
<1>2. DOMAIN u = {"dev", "ports"} /\ u["dev"] = {} /\ u["ports"] = {"dev"}
  OBVIOUS
<1>3. {"dev", "ports", "parport"} \subseteq Names
  BY DEF Names
<1>4. 1..3 = {1, 2, 3} /\ 1..(3 - 1) = {1, 2} /\ 1..(2 - 1) = {1} /\ 1..(1 - 1) = {}
  OBVIOUS
<1>5. q \in Seq(Names)
  BY <1>3
<1> HIDE DEF q, u
<1>6. Taken(q, 3) = {"dev", "ports", "parport"}
  BY <1>1, <1>3, <1>4 DEF Taken
<1>7. ASSUME NEW L PROVE Sound(q, 3, u, L)
  BY <1>1, <1>2, <1>3, <1>4 DEF Sound
<1> QED
  BY <1>5, <1>6, <1>7 DEF q, u

(* The 16550A ports *)
LEMMA SerialScript ==
    LET q == <<"dev", "ports", "chrdev">>
        u == [dev |-> {}, ports |-> {"dev"}, chrdev |-> {"ports", "dev"}]
    IN  /\ q \in Seq(Names) /\ Taken(q, 3) = {"dev", "ports", "chrdev"}
        /\ \A L : Sound(q, 3, u, L)
<1> DEFINE q == <<"dev", "ports", "chrdev">>
           u == [dev |-> {}, ports |-> {"dev"}, chrdev |-> {"ports", "dev"}]
<1>1. Len(q) = 3 /\ q[1] = "dev" /\ q[2] = "ports" /\ q[3] = "chrdev"
  OBVIOUS
<1>2. /\ DOMAIN u = {"dev", "ports", "chrdev"} /\ u["dev"] = {} /\ u["ports"] = {"dev"}
      /\ u["chrdev"] = {"ports", "dev"}
  OBVIOUS
<1>3. {"dev", "ports", "chrdev"} \subseteq Names
  BY DEF Names
<1>4. 1..3 = {1, 2, 3} /\ 1..(3 - 1) = {1, 2} /\ 1..(2 - 1) = {1} /\ 1..(1 - 1) = {}
  OBVIOUS
<1>5. q \in Seq(Names)
  BY <1>3
<1> HIDE DEF q, u
<1>6. Taken(q, 3) = {"dev", "ports", "chrdev"}
  BY <1>1, <1>3, <1>4 DEF Taken
<1>7. ASSUME NEW L PROVE Sound(q, 3, u, L)
  BY <1>1, <1>2, <1>3, <1>4 DEF Sound
<1> QED
  BY <1>5, <1>6, <1>7 DEF q, u

(* An IXXAT channel up to rtcan_sja1000_register *)
LEMMA IxxatScript ==
    LET q == <<"dev", "intcsr">>
        u == [dev |-> {}]
    IN  /\ q \in Seq(Names) /\ Taken(q, 2) = {"dev", "intcsr"}
        /\ \A L : Sound(q, 2, u, L)
<1> DEFINE q == <<"dev", "intcsr">>
           u == [dev |-> {}]
<1>1. Len(q) = 2 /\ q[1] = "dev" /\ q[2] = "intcsr"
  OBVIOUS
<1>2. DOMAIN u = {"dev"} /\ u["dev"] = {}
  OBVIOUS
<1>3. {"dev", "intcsr"} \subseteq Names
  BY DEF Names
<1>4. 1..2 = {1, 2} /\ 1..(2 - 1) = {1} /\ 1..(1 - 1) = {}
  OBVIOUS
<1>5. q \in Seq(Names)
  BY <1>3
<1> HIDE DEF q, u
<1>6. Taken(q, 2) = {"dev", "intcsr"}
  BY <1>1, <1>3, <1>4 DEF Taken
<1>7. ASSUME NEW L PROVE Sound(q, 2, u, L)
  BY <1>1, <1>2, <1>3, <1>4 DEF Sound
<1> QED
  BY <1>5, <1>6, <1>7 DEF q, u

(* The PEAK master up to rtcan_sja1000_register *)
LEMMA MasterScript ==
    LET q == <<"dev", "conf", "base", "pita">>
        u == [dev |-> {}, conf |-> {"dev"}, base |-> {"conf", "dev"}]
    IN  /\ q \in Seq(Names) /\ Taken(q, 4) = {"dev", "conf", "base", "pita"}
        /\ \A L : Sound(q, 4, u, L)
<1> DEFINE q == <<"dev", "conf", "base", "pita">>
           u == [dev |-> {}, conf |-> {"dev"}, base |-> {"conf", "dev"}]
<1>1. Len(q) = 4 /\ q[1] = "dev" /\ q[2] = "conf" /\ q[3] = "base" /\ q[4] = "pita"
  OBVIOUS
<1>2. /\ DOMAIN u = {"dev", "conf", "base"} /\ u["dev"] = {} /\ u["conf"] = {"dev"}
      /\ u["base"] = {"conf", "dev"}
  OBVIOUS
<1>3. {"dev", "conf", "base", "pita"} \subseteq Names
  BY DEF Names
<1>4. /\ 1..4 = {1, 2, 3, 4} /\ 1..(4 - 1) = {1, 2, 3} /\ 1..(3 - 1) = {1, 2}
      /\ 1..(2 - 1) = {1} /\ 1..(1 - 1) = {}
  OBVIOUS
<1>5. q \in Seq(Names)
  BY <1>3
<1> HIDE DEF q, u
<1>6. Taken(q, 4) = {"dev", "conf", "base", "pita"}
  BY <1>1, <1>3, <1>4 DEF Taken
<1>7. ASSUME NEW L PROVE Sound(q, 4, u, L)
  <2>1. 4 \in Nat /\ \A n \in 1..4 : q[n] \in Names \cup Checks
    BY <1>1, <1>3, <1>4
  <2> DEFINE Good(n) == q[n] \in DOMAIN u =>
                /\ u[q[n]] \subseteq Names
                /\ \A r \in u[q[n]] : \E j \in 1..(n - 1) : q[j] = r
                /\ \A j \in 1..(n - 1) : q[j] \in u[q[n]] \cup Checks \cup L
  <2>2. Good(1)
    BY <1>1, <1>2, <1>3, <1>4
  <2>3. Good(2)
    BY <1>1, <1>2, <1>3, <1>4
  <2>4. Good(3)
    BY <1>1, <1>2, <1>3, <1>4
  <2>5. Good(4)
    BY <1>1, <1>2, <1>3, <1>4
  <2> HIDE DEF Good
  <2>6. \A n \in 1..4 : Good(n)
    BY <1>4, <2>2, <2>3, <2>4, <2>5
  <2> QED
    BY <1>1, <2>1, <2>6 DEF Sound, Good
<1> QED
  BY <1>5, <1>6, <1>7 DEF q, u

(* The PEAK slave up to rtcan_sja1000_register *)
LEMMA SlaveScript ==
    LET q == <<"dev", "base", "pita">>
        u == [dev |-> {}, conf |-> {"dev"}, base |-> {"dev"}]
    IN  /\ q \in Seq(Names) /\ Taken(q, 3) = {"dev", "base", "pita"}
        /\ \A L : Sound(q, 3, u, L)
<1> DEFINE q == <<"dev", "base", "pita">>
           u == [dev |-> {}, conf |-> {"dev"}, base |-> {"dev"}]
<1>1. Len(q) = 3 /\ q[1] = "dev" /\ q[2] = "base" /\ q[3] = "pita"
  OBVIOUS
<1>2. /\ DOMAIN u = {"dev", "conf", "base"} /\ u["dev"] = {} /\ u["conf"] = {"dev"}
      /\ u["base"] = {"dev"}
  OBVIOUS
<1>3. {"dev", "base", "pita"} \subseteq Names
  BY DEF Names
<1>4. 1..3 = {1, 2, 3} /\ 1..(3 - 1) = {1, 2} /\ 1..(2 - 1) = {1} /\ 1..(1 - 1) = {}
  OBVIOUS
<1>5. q \in Seq(Names)
  BY <1>3
<1> HIDE DEF q, u
<1>6. Taken(q, 3) = {"dev", "base", "pita"}
  BY <1>1, <1>3, <1>4 DEF Taken
<1>7. ASSUME NEW L PROVE Sound(q, 3, u, L)
  BY <1>1, <1>2, <1>3, <1>4 DEF Sound
<1> QED
  BY <1>5, <1>6, <1>7 DEF q, u

(* The MSCAN devices *)
LEMMA MscanScript ==
    LET q == <<"dev", "module", "irq", "table">>
        u == [dev |-> {}, irq |-> {"module", "dev"}, table |-> {"irq", "module", "dev"}]
    IN  /\ q \in Seq(Names) /\ Taken(q, 4) = {"dev", "module", "irq", "table"}
        /\ \A L : Sound(q, 4, u, L)
<1> DEFINE q == <<"dev", "module", "irq", "table">>
           u == [dev |-> {}, irq |-> {"module", "dev"}, table |-> {"irq", "module", "dev"}]
<1>1. Len(q) = 4 /\ q[1] = "dev" /\ q[2] = "module" /\ q[3] = "irq" /\ q[4] = "table"
  OBVIOUS
<1>2. /\ DOMAIN u = {"dev", "irq", "table"} /\ u["dev"] = {} /\ u["irq"] = {"module", "dev"}
      /\ u["table"] = {"irq", "module", "dev"}
  OBVIOUS
<1>3. {"dev", "module", "irq", "table"} \subseteq Names
  BY DEF Names
<1>4. /\ 1..4 = {1, 2, 3, 4} /\ 1..(4 - 1) = {1, 2, 3} /\ 1..(3 - 1) = {1, 2}
      /\ 1..(2 - 1) = {1} /\ 1..(1 - 1) = {}
  OBVIOUS
<1>5. q \in Seq(Names)
  BY <1>3
<1> HIDE DEF q, u
<1>6. Taken(q, 4) = {"dev", "module", "irq", "table"}
  BY <1>1, <1>3, <1>4 DEF Taken
<1>7. ASSUME NEW L PROVE Sound(q, 4, u, L)
  <2>1. 4 \in Nat /\ \A n \in 1..4 : q[n] \in Names \cup Checks
    BY <1>1, <1>3, <1>4
  <2> DEFINE Good(n) == q[n] \in DOMAIN u =>
                /\ u[q[n]] \subseteq Names
                /\ \A r \in u[q[n]] : \E j \in 1..(n - 1) : q[j] = r
                /\ \A j \in 1..(n - 1) : q[j] \in u[q[n]] \cup Checks \cup L
  <2>2. Good(1)
    BY <1>1, <1>2, <1>3, <1>4
  <2>3. Good(2)
    BY <1>1, <1>2, <1>3, <1>4
  <2>4. Good(3)
    BY <1>1, <1>2, <1>3, <1>4
  <2>5. Good(4)
    BY <1>1, <1>2, <1>3, <1>4
  <2> HIDE DEF Good
  <2>6. \A n \in 1..4 : Good(n)
    BY <1>4, <2>2, <2>3, <2>4, <2>5
  <2> QED
    BY <1>1, <2>1, <2>6 DEF Sound, Good
<1> QED
  BY <1>5, <1>6, <1>7 DEF q, u

(* rtcan_init *)
LEMMA CoreScript ==
    LET q == <<"proto", "root", "devices", "version", "sockets">>
        u == [proto |-> {}, root |-> {}, devices |-> {"root"},
              version |-> {"devices", "root"}, sockets |-> {"version", "devices", "root"}]
    IN  /\ q \in Seq(Names) /\ Taken(q, 5) = {"proto", "root", "devices", "version", "sockets"}
        /\ \A L : "proto" \in L => Sound(q, 5, u, L)
<1> DEFINE q == <<"proto", "root", "devices", "version", "sockets">>
           u == [proto |-> {}, root |-> {}, devices |-> {"root"},
                 version |-> {"devices", "root"}, sockets |-> {"version", "devices", "root"}]
<1>1. /\ Len(q) = 5 /\ q[1] = "proto" /\ q[2] = "root" /\ q[3] = "devices" /\ q[4] = "version"
      /\ q[5] = "sockets"
  OBVIOUS
<1>2. /\ DOMAIN u = {"proto", "root", "devices", "version", "sockets"} /\ u["proto"] = {}
      /\ u["root"] = {} /\ u["devices"] = {"root"} /\ u["version"] = {"devices", "root"}
      /\ u["sockets"] = {"version", "devices", "root"}
  OBVIOUS
<1>3. {"proto", "root", "devices", "version", "sockets"} \subseteq Names
  BY DEF Names
<1>4. /\ 1..5 = {1, 2, 3, 4, 5} /\ 1..(5 - 1) = {1, 2, 3, 4} /\ 1..(4 - 1) = {1, 2, 3}
      /\ 1..(3 - 1) = {1, 2} /\ 1..(2 - 1) = {1} /\ 1..(1 - 1) = {}
  OBVIOUS
<1>5. q \in Seq(Names)
  BY <1>3
<1> HIDE DEF q, u
<1>6. Taken(q, 5) = {"proto", "root", "devices", "version", "sockets"}
  BY <1>1, <1>3, <1>4 DEF Taken
<1>7. ASSUME NEW L, "proto" \in L PROVE Sound(q, 5, u, L)
  <2>1. 5 \in Nat /\ \A n \in 1..5 : q[n] \in Names \cup Checks
    BY <1>1, <1>3, <1>4
  <2> DEFINE Good(n) == q[n] \in DOMAIN u =>
                /\ u[q[n]] \subseteq Names
                /\ \A r \in u[q[n]] : \E j \in 1..(n - 1) : q[j] = r
                /\ \A j \in 1..(n - 1) : q[j] \in u[q[n]] \cup Checks \cup L
  <2>2. Good(1)
    BY <1>1, <1>2, <1>3, <1>4, <1>7
  <2>3. Good(2)
    BY <1>1, <1>2, <1>3, <1>4, <1>7
  <2>4. Good(3)
    BY <1>1, <1>2, <1>3, <1>4, <1>7
  <2>5. Good(4)
    BY <1>1, <1>2, <1>3, <1>4, <1>7
  <2>6. Good(5)
    BY <1>1, <1>2, <1>3, <1>4, <1>7
  <2> HIDE DEF Good
  <2>7. \A n \in 1..5 : Good(n)
    BY <1>4, <2>2, <2>3, <2>4, <2>5, <2>6
  <2> QED
    BY <1>1, <2>1, <2>7 DEF Sound, Good
<1> QED
  BY <1>5, <1>6, <1>7 DEF q, u

(* The PEAK board *)
LEMMA PeakBoardScript ==
    LET q == <<"pci", "regions", "config">>
        u == [pci |-> {}, regions |-> {}, config |-> {"regions"}]
    IN  /\ Taken(q, 3) \ Checks = {"pci", "regions"}
        /\ \A L : "pci" \in L => Sound(q, 3, u, L)
<1> DEFINE q == <<"pci", "regions", "config">>
           u == [pci |-> {}, regions |-> {}, config |-> {"regions"}]
<1>1. Len(q) = 3 /\ q[1] = "pci" /\ q[2] = "regions" /\ q[3] = "config"
  OBVIOUS
<1>2. /\ DOMAIN u = {"pci", "regions", "config"} /\ u["pci"] = {} /\ u["regions"] = {}
      /\ u["config"] = {"regions"}
  OBVIOUS
<1>3. /\ {"pci", "regions"} \subseteq Names /\ Names \cap Checks = {}
      /\ Checks = {"config", "id"}
  BY DEF Names, Checks
<1>4. 1..3 = {1, 2, 3} /\ 1..(3 - 1) = {1, 2} /\ 1..(2 - 1) = {1} /\ 1..(1 - 1) = {}
  OBVIOUS
<1> HIDE DEF q, u
<1>6. Taken(q, 3) \ Checks = {"pci", "regions"}
  BY <1>1, <1>3, <1>4 DEF Taken
<1>7. ASSUME NEW L, "pci" \in L PROVE Sound(q, 3, u, L)
  BY <1>1, <1>2, <1>3, <1>4, <1>7 DEF Sound
<1> QED
  BY <1>6, <1>7 DEF q, u

(* The IXXAT board *)
LEMMA IxxatBoardScript ==
    LET q == <<"pci", "regions", "config", "id", "base">>
        u == [pci |-> {}, regions |-> {}, config |-> {"regions"}, id |-> {},
              base |-> {"regions"}]
    IN  /\ Taken(q, 5) \ Checks = {"pci", "regions", "base"}
        /\ \A L : "pci" \in L /\ "regions" \in L => Sound(q, 5, u, L)
<1> DEFINE q == <<"pci", "regions", "config", "id", "base">>
           u == [pci |-> {}, regions |-> {}, config |-> {"regions"}, id |-> {},
                 base |-> {"regions"}]
<1>1. /\ Len(q) = 5 /\ q[1] = "pci" /\ q[2] = "regions" /\ q[3] = "config" /\ q[4] = "id"
      /\ q[5] = "base"
  OBVIOUS
<1>2. /\ DOMAIN u = {"pci", "regions", "config", "id", "base"} /\ u["pci"] = {}
      /\ u["regions"] = {} /\ u["config"] = {"regions"} /\ u["id"] = {}
      /\ u["base"] = {"regions"}
  OBVIOUS
<1>3. /\ {"pci", "regions", "base"} \subseteq Names /\ Names \cap Checks = {}
      /\ Checks = {"config", "id"}
  BY DEF Names, Checks
<1>4. /\ 1..5 = {1, 2, 3, 4, 5} /\ 1..(5 - 1) = {1, 2, 3, 4} /\ 1..(4 - 1) = {1, 2, 3}
      /\ 1..(3 - 1) = {1, 2} /\ 1..(2 - 1) = {1} /\ 1..(1 - 1) = {}
  OBVIOUS
<1> HIDE DEF q, u
<1>6. Taken(q, 5) \ Checks = {"pci", "regions", "base"}
  BY <1>1, <1>3, <1>4 DEF Taken
<1>7. ASSUME NEW L, "pci" \in L, "regions" \in L PROVE Sound(q, 5, u, L)
  <2>1. 5 \in Nat /\ \A n \in 1..5 : q[n] \in Names \cup Checks
    BY <1>1, <1>3, <1>4
  <2> DEFINE Good(n) == q[n] \in DOMAIN u =>
                /\ u[q[n]] \subseteq Names
                /\ \A r \in u[q[n]] : \E j \in 1..(n - 1) : q[j] = r
                /\ \A j \in 1..(n - 1) : q[j] \in u[q[n]] \cup Checks \cup L
  <2>2. Good(1)
    BY <1>1, <1>2, <1>3, <1>4, <1>7
  <2>3. Good(2)
    BY <1>1, <1>2, <1>3, <1>4, <1>7
  <2>4. Good(3)
    BY <1>1, <1>2, <1>3, <1>4, <1>7
  <2>5. Good(4)
    BY <1>1, <1>2, <1>3, <1>4, <1>7
  <2>6. Good(5)
    BY <1>1, <1>2, <1>3, <1>4, <1>7
  <2> HIDE DEF Good
  <2>7. \A n \in 1..5 : Good(n)
    BY <1>4, <2>2, <2>3, <2>4, <2>5, <2>6
  <2> QED
    BY <1>1, <2>1, <2>7 DEF Sound, Good
<1> QED
  BY <1>6, <1>7 DEF q, u

-----------------------------------------------------------------------------
(* Setting up a device gives it all it needs, or leaves nothing of it but  *)
(* known leaks.                                                            *)
Added(s, t, i) ==
    /\ t \in Kernels /\ t.wrong = s.wrong /\ s.held \subseteq t.held
    /\ \A r \in Whole(i) : <<i, r>> \in t.held
    /\ \A h \in t.held : h \in s.held \/ (h[1] = i /\ h[2] \in May(i))
DeviceOutcome(o, s, i) ==
    \/ o.ok = TRUE /\ Added(s, o.k, i)
    \/ o.ok = FALSE /\ Failed(s, o.k, i, KnownLeaks)

(* A device with a /proc directory *)
LEMMA ProcDevice ==
    ASSUME NEW s \in Kernels, NEW i \in Nat, NEW script, NEW N, NEW undo,
           Sound(script, N, undo, KnownLeaks), drv # "core",
           Whole(i) = Taken(script, N) \ Checks,
           NEW o \in WithProc(Attempt(s, i, script, undo), i)
    PROVE  DeviceOutcome(o, s, i)
<1> DEFINE rs == Taken(script, N) \ Checks
<1>1. \/ o.ok = TRUE /\ Extended(s, o.k, i, rs)
      \/ o.ok = FALSE /\ FailedAt(o, s, i, script, N, undo, KnownLeaks)
  BY WithProcShape
<1>2. Whole(i) = rs /\ May(i) = rs \cup Procs
  BY DEF May
<1> HIDE DEF rs
<1>3. CASE o.ok = TRUE /\ Extended(s, o.k, i, rs)
  <2>1. Added(s, o.k, i)
    BY <1>2, <1>3 DEF Extended, Added
  <2> QED
    BY <1>3, <2>1 DEF DeviceOutcome
<1>4. CASE o.ok = FALSE /\ FailedAt(o, s, i, script, N, undo, KnownLeaks)
  BY <1>4 DEF FailedAt, DeviceOutcome
<1> QED
  BY <1>1, <1>3, <1>4

(* A device with an SJA1000 *)
LEMMA SjaDevice ==
    ASSUME NEW s \in Kernels, NEW i \in Nat, NEW q \in Seq(Names), NEW m \in Nat, NEW undo,
           Sound(q, m, undo, KnownLeaks), "irq" \notin Taken(q, m), "table" \notin Taken(q, m),
           NEW back \in SUBSET Taken(q, m), \A r \in Taken(q, m) : r \in back \cup KnownLeaks,
           drv # "core", Whole(i) = Taken(q, m) \cup {"irq", "table"},
           NEW o \in WithProc(Attempt(s, i, q \o SjaRegister, SjaUndo(undo, back)), i)
    PROVE  DeviceOutcome(o, s, i)
<1> DEFINE script == q \o SjaRegister
           u == SjaUndo(undo, back)
<1>1. /\ Sound(script, m + 2, u, KnownLeaks)
      /\ Taken(script, m + 2) \ Checks = Taken(q, m) \cup {"irq", "table"}
  BY SjaSound
<1>2. o \in WithProc(Attempt(s, i, script, u), i)
  OBVIOUS
<1> HIDE DEF script, u
<1>3. Whole(i) = Taken(script, m + 2) \ Checks
  BY <1>1
<1> QED
  BY <1>1, <1>2, <1>3, ProcDevice

(* What PEAK channels give back when a step fails *)
LEMMA PeakPutsValues ==
    /\ PeakPuts(1, 2) = {"dev"} /\ PeakPuts(1, 3) = {"conf", "dev"}
    /\ PeakPuts(1, 5) = {"dev", "conf", "base", "pita"}
    /\ PeakPuts(2, 2) = {"dev"} /\ PeakPuts(2, 5) = {"dev", "base", "pita"}
<1>1. ASSUME NEW r PROVE r \in PeakPuts(1, 2) <=> r \in {"dev"}
  BY PeakPutsElem
<1>2. ASSUME NEW r PROVE r \in PeakPuts(1, 3) <=> r \in {"conf", "dev"}
  BY PeakPutsElem
<1>3. ASSUME NEW r PROVE r \in PeakPuts(1, 5) <=> r \in {"dev", "conf", "base", "pita"}
  BY PeakPutsElem
<1>4. ASSUME NEW r PROVE r \in PeakPuts(2, 2) <=> r \in {"dev"}
  BY PeakPutsElem
<1>5. ASSUME NEW r PROVE r \in PeakPuts(2, 5) <=> r \in {"dev", "base", "pita"}
  BY PeakPutsElem
<1> QED
  BY <1>1, <1>2, <1>3, <1>4, <1>5

(* rtcan_peak_pci_add_chan sets up all of the device, or leaves known leaks. *)
LEMMA PeakDevice ==
    ASSUME drv = "peak_pci", NEW s \in Kernels, NEW c \in {1, 2}, NEW o \in PeakAddChan(s, c)
    PROVE  DeviceOutcome(o, s, c)
<1>1. CASE c = 1
  <2> DEFINE q == <<"dev", "conf", "base", "pita">>
             u == [dev |-> {}, conf |-> {"dev"}, base |-> {"conf", "dev"}]
             back == {"dev", "conf", "base", "pita"}
  <2>1. PeakPuts(c, 2) = {"dev"} /\ PeakPuts(c, 3) = {"conf", "dev"} /\ PeakPuts(c, 5) = back
    BY <1>1, PeakPutsValues
  <2>2. PeakAddChan(s, c) = WithProc(Attempt(s, c, q \o SjaRegister, SjaUndo(u, back)), c)
    BY <1>1, <2>1 DEF PeakAddChan
  <2>3. /\ q \in Seq(Names) /\ Taken(q, 4) = back /\ Sound(q, 4, u, KnownLeaks)
    BY MasterScript
  <2>4. Whole(c) = back \cup {"irq", "table"} /\ c \in Nat /\ 4 \in Nat
    BY <1>1 DEF Whole
  <2>5. "irq" \notin back /\ "table" \notin back /\ drv # "core"
    OBVIOUS
  <2> HIDE DEF q, u, back
  <2> QED
    BY <2>2, <2>3, <2>4, <2>5, SjaDevice
<1>2. CASE c = 2
  <2> DEFINE q == <<"dev", "base", "pita">>
             u == [dev |-> {}, conf |-> {"dev"}, base |-> {"dev"}]
             back == {"dev", "base", "pita"}
  <2>1. PeakPuts(c, 2) = {"dev"} /\ PeakPuts(c, 5) = back
    BY <1>2, PeakPutsValues
  <2>2. PeakAddChan(s, c) = WithProc(Attempt(s, c, q \o SjaRegister, SjaUndo(u, back)), c)
    BY <1>2, <2>1 DEF PeakAddChan
  <2>3. /\ q \in Seq(Names) /\ Taken(q, 3) = back /\ Sound(q, 3, u, KnownLeaks)
    BY SlaveScript
  <2>4. Whole(c) = back \cup {"irq", "table"} /\ c \in Nat /\ 3 \in Nat
    BY <1>2 DEF Whole
  <2>5. "irq" \notin back /\ "table" \notin back /\ drv # "core"
    OBVIOUS
  <2> HIDE DEF q, u, back
  <2> QED
    BY <2>2, <2>3, <2>4, <2>5, SjaDevice
<1> QED
  BY <1>1, <1>2

(* rtcan_isa_init_one sets up all of the device, or leaves known leaks. *)
LEMMA IsaDevice ==
    ASSUME drv = "isa", NEW s \in Kernels, NEW i \in Nat, NEW o \in IsaInitOne(s, i)
    PROVE  DeviceOutcome(o, s, i)
<1> DEFINE q == <<"dev", "ports">>
           u == [dev |-> {}, ports |-> {"dev"}]
           back == {"ports", "dev"}
<1>1. o \in WithProc(Attempt(s, i, q \o SjaRegister, SjaUndo(u, back)), i)
  BY DEF IsaInitOne
<1>2. q \in Seq(Names) /\ Taken(q, 2) = {"dev", "ports"} /\ Sound(q, 2, u, KnownLeaks)
  BY IsaScript
<1>3. Whole(i) = Taken(q, 2) \cup {"irq", "table"}
  BY <1>2 DEF Whole
<1>4. /\ "irq" \notin Taken(q, 2) /\ "table" \notin Taken(q, 2) /\ 2 \in Nat /\ drv # "core"
      /\ back \in SUBSET Taken(q, 2)
  BY <1>2
<1>5. \A r \in Taken(q, 2) : r \in back \cup KnownLeaks
  BY <1>2 DEF KnownLeaks
<1> HIDE DEF q, u, back
<1> QED
  BY <1>1, <1>2, <1>3, <1>4, <1>5, SjaDevice

(* rtcan_mem_init_one sets up all of the device, or leaves known leaks. *)
LEMMA MemDevice ==
    ASSUME drv = "mem", NEW s \in Kernels, NEW i \in Nat, NEW o \in MemInitOne(s, i)
    PROVE  DeviceOutcome(o, s, i)
<1> DEFINE q == <<"dev", "memory", "map">>
           u == [dev |-> {}, memory |-> {"dev"}, map |-> {"memory", "dev"}]
           back == {"map", "memory", "dev"}
<1>1. o \in WithProc(Attempt(s, i, q \o SjaRegister, SjaUndo(u, back)), i)
  BY DEF MemInitOne
<1>2. q \in Seq(Names) /\ Taken(q, 3) = {"dev", "memory", "map"} /\ Sound(q, 3, u, KnownLeaks)
  BY MemScript
<1>3. Whole(i) = Taken(q, 3) \cup {"irq", "table"}
  BY <1>2 DEF Whole
<1>4. /\ "irq" \notin Taken(q, 3) /\ "table" \notin Taken(q, 3) /\ 3 \in Nat /\ drv # "core"
      /\ back \in SUBSET Taken(q, 3)
  BY <1>2
<1>5. \A r \in Taken(q, 3) : r \in back \cup KnownLeaks
  BY <1>2 DEF KnownLeaks
<1> HIDE DEF q, u, back
<1> QED
  BY <1>1, <1>2, <1>3, <1>4, <1>5, SjaDevice

(* rtcan_peak_dng_init_one: the port's interrupt stays when there is no chip. *)
LEMMA DngDevice ==
    ASSUME drv = "peak_dng", NEW s \in Kernels, NEW i \in Nat, NEW o \in DngInitOne(s, i)
    PROVE  DeviceOutcome(o, s, i)
<1> DEFINE q == <<"dev", "ports", "parport">>
           u == [dev |-> {}, ports |-> {"dev"}]
           back == {"ports", "dev"}
<1>1. o \in WithProc(Attempt(s, i, q \o SjaRegister, SjaUndo(u, back)), i)
  BY DEF DngInitOne
<1>2. q \in Seq(Names) /\ Taken(q, 3) = {"dev", "ports", "parport"} /\ Sound(q, 3, u, KnownLeaks)
  BY DngScript
<1>3. Whole(i) = Taken(q, 3) \cup {"irq", "table"}
  BY <1>2 DEF Whole
<1>4. /\ "irq" \notin Taken(q, 3) /\ "table" \notin Taken(q, 3) /\ 3 \in Nat /\ drv # "core"
      /\ back \in SUBSET Taken(q, 3)
  BY <1>2
<1>5. \A r \in Taken(q, 3) : r \in back \cup KnownLeaks
  BY <1>2 DEF KnownLeaks
<1> HIDE DEF q, u, back
<1> QED
  BY <1>1, <1>2, <1>3, <1>4, <1>5, SjaDevice

(* rtcan_ixxat_pci_add_chan sets up all of the device, or leaves known leaks. *)
LEMMA IxxatDevice ==
    ASSUME drv = "ixxat_pci", NEW s \in Kernels, NEW i \in Nat, NEW o \in IxxatAddChan(s, i)
    PROVE  DeviceOutcome(o, s, i)
<1> DEFINE q == <<"dev", "intcsr">>
           u == [dev |-> {}]
           back == {"dev"}
<1>1. o \in WithProc(Attempt(s, i, q \o SjaRegister, SjaUndo(u, back)), i)
  BY DEF IxxatAddChan
<1>2. q \in Seq(Names) /\ Taken(q, 2) = {"dev", "intcsr"} /\ Sound(q, 2, u, KnownLeaks)
  BY IxxatScript
<1>3. Whole(i) = Taken(q, 2) \cup {"irq", "table"}
  BY <1>2 DEF Whole
<1>4. /\ "irq" \notin Taken(q, 2) /\ "table" \notin Taken(q, 2) /\ 2 \in Nat /\ drv # "core"
      /\ back \in SUBSET Taken(q, 2)
  BY <1>2
<1>5. \A r \in Taken(q, 2) : r \in back \cup KnownLeaks
  BY <1>2 DEF KnownLeaks
<1> HIDE DEF q, u, back
<1> QED
  BY <1>1, <1>2, <1>3, <1>4, <1>5, SjaDevice

(* rtcan_virt_init_one sets up all of the device, or leaves known leaks. *)
LEMMA VirtDevice ==
    ASSUME drv = "virt", NEW s \in Kernels, NEW i \in Nat, NEW o \in VirtInitOne(s, i)
    PROVE  DeviceOutcome(o, s, i)
<1> DEFINE q == <<"dev", "table">>
           u == [dev |-> {}, table |-> {"dev"}]
<1>1. o \in WithProc(Attempt(s, i, q, u), i)
  BY DEF VirtInitOne
<1>2. Taken(q, 2) = {"dev", "table"} /\ Sound(q, 2, u, KnownLeaks)
  BY VirtScript
<1>3. Whole(i) = Taken(q, 2) \ Checks /\ drv # "core"
  BY <1>2 DEF Whole, Checks
<1> HIDE DEF q, u
<1> QED
  BY <1>1, <1>2, <1>3, ProcDevice

(* rtcan_mscan_init_one sets up all of the device, or leaves known leaks. *)
LEMMA MscanDevice ==
    ASSUME drv = "mscan", NEW s \in Kernels, NEW i \in Nat, NEW o \in MscanInitOne(s, i)
    PROVE  DeviceOutcome(o, s, i)
<1> DEFINE q == <<"dev", "module", "irq", "table">>
           u == [dev |-> {}, irq |-> {"module", "dev"}, table |-> {"irq", "module", "dev"}]
<1>1. o \in WithProc(Attempt(s, i, q, u), i)
  BY DEF MscanInitOne
<1>2. Taken(q, 4) = {"dev", "module", "irq", "table"} /\ Sound(q, 4, u, KnownLeaks)
  BY MscanScript
<1>3. Whole(i) = Taken(q, 4) \ Checks /\ drv # "core"
  BY <1>2 DEF Whole, Checks
<1> HIDE DEF q, u
<1> QED
  BY <1>1, <1>2, <1>3, ProcDevice

(* rtcan_init creates all entries, or leaves the protocol registered. *)
LEMMA CoreDevice ==
    ASSUME drv = "core", NEW s \in Kernels, NEW i \in Nat, NEW o \in CoreInitOne(s, i)
    PROVE  DeviceOutcome(o, s, i)
<1> DEFINE q == <<"proto", "root", "devices", "version", "sockets">>
           u == [proto |-> {}, root |-> {}, devices |-> {"root"},
                 version |-> {"devices", "root"}, sockets |-> {"version", "devices", "root"}]
<1>1. o \in Attempt(s, i, q, u)
  BY DEF CoreInitOne
<1>2. "proto" \in KnownLeaks
  BY DEF KnownLeaks
<1>3. /\ Taken(q, 5) = {"proto", "root", "devices", "version", "sockets"}
      /\ Sound(q, 5, u, KnownLeaks)
  BY <1>2, CoreScript
<1>4. Whole(i) = Taken(q, 5) \ Checks /\ May(i) = Whole(i)
  BY <1>3 DEF Whole, May, Checks
<1> HIDE DEF q, u
<1>5. Outcome(o, s, i, q, 5, u, KnownLeaks)
  BY <1>1, <1>3, AttemptShape
<1>6. CASE o.ok = TRUE /\ Succeeded(s, o.k, i, Taken(q, 5) \ Checks)
  <2>1. Added(s, o.k, i)
    BY <1>4, <1>6 DEF Succeeded, Added
  <2> QED
    BY <1>6, <2>1 DEF DeviceOutcome
<1>7. CASE o.ok = FALSE /\ FailedAt(o, s, i, q, 5, u, KnownLeaks)
  BY <1>7 DEF FailedAt, DeviceOutcome
<1> QED
  BY <1>5, <1>6, <1>7 DEF Outcome

(* __16550A_init: what was set up is taken for a failure. *)
LEMMA SerialDevice ==
    ASSUME drv = "serial", NEW s \in Kernels, NEW i \in Nat, NEW o \in SerialInitOne(s, i)
    PROVE  o.ok = FALSE /\ Failed(s, o.k, i, KnownLeaks)
<1> DEFINE q == <<"dev", "ports", "chrdev">>
           u == [dev |-> {}, ports |-> {"dev"}, chrdev |-> {"ports", "dev"}]
           all == Attempt(s, i, q, u)
           g(x) == [ok |-> FALSE, at |-> "major", k |-> Put(x.k, i, {"ports", "dev"})]
<1>1. o \in {x \in all : ~x.ok} \cup {g(x) : x \in {y \in all : y.ok}}
  <2>1. u.chrdev = {"ports", "dev"}
    OBVIOUS
  <2> QED
    BY <2>1 DEF SerialInitOne
<1>2. Taken(q, 3) = {"dev", "ports", "chrdev"} /\ Sound(q, 3, u, KnownLeaks)
  BY SerialScript
<1> HIDE DEF q, u
<1>3. ASSUME NEW x \in all PROVE Outcome(x, s, i, q, 3, u, KnownLeaks)
  BY <1>2, AttemptShape
<1>4. {"ports", "dev"} \in SUBSET Names /\ KnownLeaks = {"chrdev"} /\ Checks \cap Names = {}
      /\ {"dev", "ports", "chrdev"} \cap Checks = {}
  BY DEF Names, KnownLeaks, Checks
<1>5. ASSUME NEW x \in all, x.ok, o = g(x) PROVE o.ok = FALSE /\ Failed(s, o.k, i, KnownLeaks)
  <2> DEFINE rs == {"ports", "dev"}
             p == Put(x.k, i, rs)
  <2>1. /\ x.k \in Kernels /\ x.k.wrong = s.wrong
        /\ x.k.held = s.held \cup ({i} \X {"dev", "ports", "chrdev"})
    BY <1>2, <1>3, <1>4, <1>5 DEF Outcome, Succeeded
  <2>2. o.k = p /\ o.ok = FALSE
    BY <1>5
  <2>3. \A r \in rs : <<i, r>> \in x.k.held
    BY <2>1
  <2>4. Returned(x.k, p, i, rs)
    BY <1>4, <2>1, <2>3, PutReturned
  <2> HIDE DEF p
  <2>5. p \in Kernels /\ p.held = x.k.held \ ({i} \X rs) /\ p.wrong = s.wrong
    BY <2>1, <2>4 DEF Returned
  <2>6. ASSUME NEW h \in p.held, h \notin s.held PROVE h[1] = i /\ h[2] \in KnownLeaks
    <3>1. h \in {i} \X {"dev", "ports", "chrdev"} /\ h \notin {i} \X rs
      BY <2>1, <2>5, <2>6
    <3> QED
      BY <1>4, <3>1
  <2>7. \A h \in s.held : h[1] # i => h \in p.held
    BY <2>1, <2>5
  <2> QED
    BY <2>2, <2>5, <2>6, <2>7 DEF Failed
<1>6. ASSUME o \in all, ~o.ok PROVE o.ok = FALSE /\ Failed(s, o.k, i, KnownLeaks)
  BY <1>3, <1>6 DEF Outcome, FailedAt
<1> HIDE DEF all
<1> QED
  BY <1>1, <1>5, <1>6

(* The init function of every driver; the serial driver's never succeeds. *)
LEMMA DeviceInitShape ==
    ASSUME drv \in Drivers, NEW s \in Kernels, NEW i \in Nat,
           drv = "peak_pci" => i \in {1, 2}, NEW o \in DeviceInit(s, i)
    PROVE  DeviceOutcome(o, s, i) /\ (drv = "serial" => o.ok = FALSE)
<1>1. CASE drv = "core"
  <2>1. o \in CoreInitOne(s, i)
    BY <1>1 DEF DeviceInit
  <2> QED
    BY <1>1, <2>1, CoreDevice
<1>2. CASE drv = "virt"
  <2>1. o \in VirtInitOne(s, i)
    BY <1>2 DEF DeviceInit
  <2> QED
    BY <1>2, <2>1, VirtDevice
<1>3. CASE drv = "isa"
  <2>1. o \in IsaInitOne(s, i)
    BY <1>3 DEF DeviceInit
  <2> QED
    BY <1>3, <2>1, IsaDevice
<1>4. CASE drv = "mem"
  <2>1. o \in MemInitOne(s, i)
    BY <1>4 DEF DeviceInit
  <2> QED
    BY <1>4, <2>1, MemDevice
<1>5. CASE drv = "mscan"
  <2>1. o \in MscanInitOne(s, i)
    BY <1>5 DEF DeviceInit
  <2> QED
    BY <1>5, <2>1, MscanDevice
<1>6. CASE drv = "peak_dng"
  <2>1. o \in DngInitOne(s, i)
    BY <1>6 DEF DeviceInit
  <2> QED
    BY <1>6, <2>1, DngDevice
<1>7. CASE drv = "peak_pci"
  <2>1. o \in PeakAddChan(s, i)
    BY <1>7 DEF DeviceInit
  <2> QED
    BY <1>7, <2>1, PeakDevice
<1>8. CASE drv = "ixxat_pci"
  <2>1. o \in IxxatAddChan(s, i)
    BY <1>8 DEF DeviceInit
  <2> QED
    BY <1>8, <2>1, IxxatDevice
<1>9. CASE drv = "serial"
  <2>1. o \in SerialInitOne(s, i)
    BY <1>9 DEF DeviceInit
  <2>2. o.ok = FALSE /\ Failed(s, o.k, i, KnownLeaks)
    BY <1>9, <2>1, SerialDevice
  <2> QED
    BY <2>2 DEF DeviceOutcome
<1> QED
  BY <1>1, <1>2, <1>3, <1>4, <1>5, <1>6, <1>7, <1>8, <1>9, BoardDriversAssumption

-----------------------------------------------------------------------------
(* The board, and a failed or successful device, seen from the state.      *)

(* A board that holds all it needs, and nothing of its devices *)
LEMMA BoardLoaded ==
    ASSUME NEW s, Clean(s, {}), NEW t \in Kernels, NEW rs, Board \subseteq rs,
           rs \subseteq PnpBoard, t.held = s.held \cup ({0} \X rs), t.wrong = s.wrong
    PROVE  Loaded(t, 0)
<1>1. /\ \A h \in s.held : h[2] \in KnownLeaks
      /\ \A w \in s.wrong : KnownWrong(w)
  BY DEF Clean
<1>2. ASSUME NEW h \in t.held PROVE h[2] \in KnownLeaks \/ (h[1] = 0 /\ h[2] \in PnpBoard)
  <2>1. CASE h \in s.held
    BY <1>1, <2>1
  <2>2. CASE h \in {0} \X rs
    BY <2>2
  <2> QED
    BY <2>1, <2>2
<1>3. \A r \in Board : <<0, r>> \in t.held
  OBVIOUS
<1>4. 1..0 = {}
  OBVIOUS
<1> QED
  BY <1>1, <1>2, <1>3, <1>4 DEF Loaded

(* A failed attempt leaves a clean state clean. *)
LEMMA BoardFailed ==
    ASSUME NEW s, NEW busy, Clean(s, busy), NEW t, NEW i, Failed(s, t, i, KnownLeaks)
    PROVE  Clean(t, busy)
BY DEF Clean, Failed

(* The outcomes of the probe before its first device *)
BoardOutcome(o) == (o.ok = TRUE /\ Loaded(o.k, 0)) \/ (o.ok = FALSE /\ Clean(o.k, {}))

(* The probe of every driver has one of these outcomes. *)
LEMMA BoardInitShape ==
    ASSUME drv \in Drivers, NEW s, Clean(s, {}), NEW o \in BoardInit(s)
    PROVE  BoardOutcome(o)
<1>0. s \in Kernels /\ 0 \in Nat
  BY DEF Clean
<1>1. CASE drv = "peak_pci"
  <2> DEFINE q == <<"pci", "regions", "config">>
             u == [pci |-> {}, regions |-> {}, config |-> {"regions"}]
  <2>1. o \in Attempt(s, 0, q, u)
    BY <1>1 DEF BoardInit, PeakBoardInit
  <2>2. "pci" \in KnownLeaks
    BY <1>1, PeakValues
  <2>3. Taken(q, 3) \ Checks = {"pci", "regions"} /\ Sound(q, 3, u, KnownLeaks)
    BY <2>2, PeakBoardScript
  <2> HIDE DEF q, u
  <2>4. Outcome(o, s, 0, q, 3, u, KnownLeaks)
    BY <1>0, <2>1, <2>3, AttemptShape
  <2>5. CASE o.ok = TRUE /\ Succeeded(s, o.k, 0, Taken(q, 3) \ Checks)
    <3> DEFINE rs == Taken(q, 3) \ Checks
    <3>1. o.k \in Kernels /\ o.k.wrong = s.wrong /\ o.k.held = s.held \cup ({0} \X rs)
      BY <2>5 DEF Succeeded
    <3>2. Board \subseteq rs /\ rs \subseteq PnpBoard
      BY <1>1, <2>3, PeakValues
    <3> HIDE DEF rs
    <3>3. Loaded(o.k, 0)
      BY <3>1, <3>2, BoardLoaded
    <3> QED
      BY <2>5, <3>3 DEF BoardOutcome
  <2>6. CASE o.ok = FALSE /\ FailedAt(o, s, 0, q, 3, u, KnownLeaks)
    <3>1. Failed(s, o.k, 0, KnownLeaks)
      BY <2>6 DEF FailedAt
    <3>2. Clean(o.k, {})
      BY <3>1, BoardFailed
    <3> QED
      BY <2>6, <3>2 DEF BoardOutcome
  <2> QED
    BY <2>4, <2>5, <2>6 DEF Outcome
<1>2. CASE drv = "ixxat_pci"
  <2> DEFINE q == <<"pci", "regions", "config", "id", "base">>
             u == [pci |-> {}, regions |-> {}, config |-> {"regions"}, id |-> {},
                   base |-> {"regions"}]
  <2>1. o \in Attempt(s, 0, q, u)
    BY <1>2 DEF BoardInit, IxxatBoardInit
  <2>2. "pci" \in KnownLeaks /\ "regions" \in KnownLeaks
    BY <1>2, IxxatValues
  <2>3. Taken(q, 5) \ Checks = {"pci", "regions", "base"} /\ Sound(q, 5, u, KnownLeaks)
    BY <2>2, IxxatBoardScript
  <2> HIDE DEF q, u
  <2>4. Outcome(o, s, 0, q, 5, u, KnownLeaks)
    BY <1>0, <2>1, <2>3, AttemptShape
  <2>5. CASE o.ok = TRUE /\ Succeeded(s, o.k, 0, Taken(q, 5) \ Checks)
    <3> DEFINE rs == Taken(q, 5) \ Checks
    <3>1. o.k \in Kernels /\ o.k.wrong = s.wrong /\ o.k.held = s.held \cup ({0} \X rs)
      BY <2>5 DEF Succeeded
    <3>2. Board \subseteq rs /\ rs \subseteq PnpBoard
      BY <1>2, <2>3, IxxatValues
    <3> HIDE DEF rs
    <3>3. Loaded(o.k, 0)
      BY <3>1, <3>2, BoardLoaded
    <3> QED
      BY <2>5, <3>3 DEF BoardOutcome
  <2>6. CASE o.ok = FALSE /\ FailedAt(o, s, 0, q, 5, u, KnownLeaks)
    <3>1. Failed(s, o.k, 0, KnownLeaks)
      BY <2>6 DEF FailedAt
    <3>2. Clean(o.k, {})
      BY <3>1, BoardFailed
    <3> QED
      BY <2>6, <3>2 DEF BoardOutcome
  <2> QED
    BY <2>4, <2>5, <2>6 DEF Outcome
<1>3. CASE drv \notin {"peak_pci", "ixxat_pci"}
  <2>1. PICK x : /\ x = s \/ (drv \in {"peak_dng", "serial"} /\ x = Get(s, 0, {"pnp"}))
                 /\ o = [ok |-> TRUE, at |-> "", k |-> x]
    BY <1>3 DEF BoardInit
  <2>2. o.ok = TRUE
    BY <2>1
  <2>3. o.k = x
    BY <2>1
  <2>4. Board = {}
    BY <1>3 DEF Board
  <2>5. CASE x = s
    <3>1. s.held = s.held \cup ({0} \X {}) /\ Board \subseteq {} /\ {} \subseteq PnpBoard
      BY <2>4
    <3>2. Loaded(s, 0)
      BY <1>0, <3>1, BoardLoaded
    <3> QED
      BY <2>2, <2>3, <2>5, <3>2 DEF BoardOutcome
  <2>6. CASE drv \in {"peak_dng", "serial"} /\ x = Get(s, 0, {"pnp"})
    <3>1. {"pnp"} \in SUBSET (Names \cup Checks) /\ {"pnp"} \ Checks = {"pnp"}
      BY DEF Names, Checks
    <3>2. x \in Kernels /\ x.wrong = s.wrong /\ x.held = s.held \cup ({0} \X ({"pnp"} \ Checks))
      BY <1>0, <2>6, <3>1, GetShape
    <3>3. x.held = s.held \cup ({0} \X {"pnp"})
      BY <3>1, <3>2
    <3>4. Board \subseteq {"pnp"} /\ {"pnp"} \subseteq PnpBoard
      BY <2>4, <2>6 DEF PnpBoard
    <3> DEFINE rs == {"pnp"}
    <3>5. /\ x \in Kernels /\ x.wrong = s.wrong /\ x.held = s.held \cup ({0} \X rs)
          /\ Board \subseteq rs /\ rs \subseteq PnpBoard
      BY <3>2, <3>3, <3>4
    <3> HIDE DEF rs
    <3>6. Loaded(x, 0)
      BY <3>5, BoardLoaded
    <3> QED
      BY <2>2, <2>3, <3>6 DEF BoardOutcome
  <2> QED
    BY <2>1, <2>5, <2>6
<1> QED
  BY <1>1, <1>2, <1>3

(* One more device *)
LEMMA AddedLoaded ==
    ASSUME NEW n \in Nat, NEW s, Loaded(s, n), NEW t, Added(s, t, n + 1)
    PROVE  Loaded(t, n + 1)
<1>1. /\ t \in Kernels /\ t.wrong = s.wrong /\ s.held \subseteq t.held
      /\ \A r \in Whole(n + 1) : <<n + 1, r>> \in t.held
      /\ \A h \in t.held : h \in s.held \/ (h[1] = n + 1 /\ h[2] \in May(n + 1))
  BY DEF Added
<1>2. /\ \A h \in s.held : \/ h[2] \in KnownLeaks
                           \/ h[1] = 0 /\ h[2] \in PnpBoard
                           \/ h[1] \in 1..n /\ h[2] \in May(h[1])
      /\ \A r \in Board : <<0, r>> \in s.held
      /\ \A i \in 1..n : \A r \in Whole(i) : <<i, r>> \in s.held
      /\ \A w \in s.wrong : KnownWrong(w)
  BY DEF Loaded
<1>3. /\ n + 1 \in 1..(n + 1) /\ \A i \in 1..n : i \in 1..(n + 1)
      /\ \A i \in 1..(n + 1) : i \in 1..n \/ i = n + 1
  OBVIOUS
<1>4. ASSUME NEW h \in t.held
      PROVE  \/ h[2] \in KnownLeaks
             \/ h[1] = 0 /\ h[2] \in PnpBoard
             \/ h[1] \in 1..(n + 1) /\ h[2] \in May(h[1])
  <2>1. CASE h \in s.held
    BY <1>2, <1>3, <2>1
  <2>2. CASE h[1] = n + 1 /\ h[2] \in May(n + 1)
    BY <1>3, <2>2
  <2> QED
    BY <1>1, <2>1, <2>2
<1>5. ASSUME NEW i \in 1..(n + 1), NEW r \in Whole(i) PROVE <<i, r>> \in t.held
  <2>1. CASE i \in 1..n
    BY <1>1, <1>2, <2>1
  <2>2. CASE i = n + 1
    BY <1>1, <2>2
  <2> QED
    BY <1>3, <2>1, <2>2
<1> QED
  BY <1>1, <1>2, <1>4, <1>5 DEF Loaded

(* A device that failed leaves those before it as they are. *)
LEMMA FailedLoaded ==
    ASSUME NEW n \in Nat, NEW s, Loaded(s, n), NEW t, Failed(s, t, n + 1, KnownLeaks)
    PROVE  Loaded(t, n)
<1>1. /\ t \in Kernels /\ t.wrong = s.wrong
      /\ \A h \in t.held : h \in s.held \/ (h[1] = n + 1 /\ h[2] \in KnownLeaks)
      /\ \A h \in s.held : h[1] # n + 1 => h \in t.held
  BY DEF Failed
<1>2. /\ \A h \in s.held : \/ h[2] \in KnownLeaks
                           \/ h[1] = 0 /\ h[2] \in PnpBoard
                           \/ h[1] \in 1..n /\ h[2] \in May(h[1])
      /\ \A r \in Board : <<0, r>> \in s.held
      /\ \A i \in 1..n : \A r \in Whole(i) : <<i, r>> \in s.held
      /\ \A w \in s.wrong : KnownWrong(w)
  BY DEF Loaded
<1>3. ASSUME NEW i \in 0..n, NEW r, <<i, r>> \in s.held PROVE <<i, r>> \in t.held
  <2>1. <<i, r>>[1] = i /\ i # n + 1
    OBVIOUS
  <2> QED
    BY <1>1, <1>3, <2>1
<1>4. 0 \in 0..n /\ \A i \in 1..n : i \in 0..n
  OBVIOUS
<1>5. \A h \in t.held : \/ h[2] \in KnownLeaks
                        \/ h[1] = 0 /\ h[2] \in PnpBoard
                        \/ h[1] \in 1..n /\ h[2] \in May(h[1])
  BY <1>1, <1>2
<1>6. /\ \A r \in Board : <<0, r>> \in t.held
      /\ \A i \in 1..n : \A r \in Whole(i) : <<i, r>> \in t.held
  BY <1>2, <1>3, <1>4
<1> QED
  BY <1>1, <1>2, <1>5, <1>6 DEF Loaded

-----------------------------------------------------------------------------
(* The inductive invariant.                                                *)

(* The invariant says that a module without devices is clean. *)
LEMMA IInvClean ==
    ASSUME IInv, Down, pc # "twice"
    PROVE  Clean(k, ghosts)
BY DEF IInv, Position, HeldOnly, GivenBackOnce, Clean

(* While it is being loaded and while it is in, all that was set up is     *)
(* there.                                                                  *)
LEMMA IInvLoaded ==
    ASSUME IInv, ~Down
    PROVE  Loaded(k, next - 1)
<1>1. k \in Kernels /\ ghosts = {}
  BY DEF IInv, Position
<1>2. \A h \in k.held : \/ h[2] \in KnownLeaks
                        \/ h[1] = 0 /\ h[2] \in PnpBoard
                        \/ h[1] \in 1..(next - 1) /\ h[2] \in May(h[1])
  BY <1>1 DEF IInv, HeldOnly
<1>3. /\ \A r \in Board : <<0, r>> \in k.held
      /\ \A i \in 1..(next - 1) : \A r \in Whole(i) : <<i, r>> \in k.held
  BY DEF IInv, HeldAll
<1>4. \A w \in k.wrong : KnownWrong(w)
  BY DEF IInv, GivenBackOnce, Down
<1> QED
  BY <1>1, <1>2, <1>3, <1>4 DEF Loaded

(* What a device and a board hold depends on the driver only, which never  *)
(* changes.                                                                *)
LEMMA SameDriver ==
    ASSUME drv' = drv
    PROVE  /\ KnownLeaks' = KnownLeaks /\ PnpBoard' = PnpBoard /\ Board' = Board
           /\ \A i : Whole(i)' = Whole(i) /\ May(i)' = May(i)
           /\ \A w : KnownWrong(w)' <=> KnownWrong(w)
<1>1. KnownLeaks' = KnownLeaks
  BY DEF KnownLeaks
<1>2. Board' = Board
  BY DEF Board
<1>3. PnpBoard' = PnpBoard
  BY <1>2 DEF PnpBoard
<1>4. ASSUME NEW i PROVE Whole(i)' = Whole(i)
  BY DEF Whole
<1>5. ASSUME NEW i PROVE May(i)' = May(i)
  BY <1>4 DEF May
<1>6. ASSUME NEW w PROVE KnownWrong(w)' <=> KnownWrong(w)
  BY DEF KnownWrong
<1> QED
  BY <1>1, <1>2, <1>3, <1>4, <1>5, <1>6

(* A step that leaves no device *)
LEMMA CleanIInv ==
    ASSUME drv' = drv, drv \in Drivers, pc' \in {"out", "spent"}, next' = 1, total' \in Nat,
           pc' = "out" \/ drv = "serial" => total' = 0,
           pc' = "spent" => drv \in {"mscan", "serial"}, Clean(k', ghosts'),
           pnp' \in {0, 1}, pnp' = 1 => drv \in {"peak_dng", "serial"}
    PROVE  IInv'
<1>0. Down'
  BY DEF Down
<1>1. Position'
  <2>1. k' \in Kernels
    BY DEF Clean
  <2>2. CASE pc' = "out"
    BY <2>1, <2>2 DEF Position, Down
  <2>3. CASE pc' = "spent"
    BY <2>1, <2>3 DEF Position, Down
  <2> QED
    BY <2>2, <2>3
<1>2. \A h \in k'.held :
         h[2] \in KnownLeaks' \/ (h[1] \in ghosts' /\ h[2] \in {"table"} \cup Procs)
  BY SameDriver DEF Clean
<1>3. HeldOnly'
  BY <1>2 DEF HeldOnly, Procs
<1>4. HeldAll' /\ PnpKnown'
  BY <1>0 DEF HeldAll, PnpKnown
<1>5. \A w \in k'.wrong : KnownWrong(w)'
  BY SameDriver DEF Clean
<1>6. GivenBackOnce'
  BY <1>5 DEF GivenBackOnce
<1> QED
  BY <1>1, <1>3, <1>4, <1>6 DEF IInv

(* A step that leaves devices set up *)
LEMMA LoadedIInv ==
    ASSUME drv' = drv, ~Down', Position', PnpKnown', Loaded(k', next' - 1)
    PROVE  IInv'
<1>1. /\ \A h \in k'.held : \/ h[2] \in KnownLeaks'
                            \/ h[1] = 0 /\ h[2] \in PnpBoard'
                            \/ h[1] \in 1..(next' - 1) /\ h[2] \in May(h[1])'
  BY SameDriver DEF Loaded
<1>2. HeldOnly'
  BY <1>1 DEF HeldOnly
<1>3. HeldAll'
  <2>1. \A r \in Board' : <<0, r>> \in k'.held
    BY SameDriver DEF Loaded
  <2>2. \A i \in 1..(next' - 1) : \A r \in Whole(i)' : <<i, r>> \in k'.held
    BY SameDriver DEF Loaded
  <2> QED
    BY <2>1, <2>2 DEF HeldAll
<1>4. \A w \in k'.wrong : KnownWrong(w)'
  BY SameDriver DEF Loaded
<1>5. GivenBackOnce'
  BY <1>4 DEF GivenBackOnce
<1> QED
  BY <1>2, <1>3, <1>5 DEF IInv

(* Loading: the board, before its first device *)
LEMMA LoadIInv ==
    ASSUME IInv, NEW n \in 0..(MaxDev + 1), Load(n)
    PROVE  IInv'
<1>1. /\ pc = "out" /\ ghosts = {} /\ n \in Totals
      /\ drv' = drv /\ running' = running /\ ghosts' = {}
  BY DEF Load
<1>2. drv \in Drivers /\ next = 1 /\ total = 0 /\ n \in Nat
  BY <1>1, BoardDriversAssumption DEF IInv, Position, Down
<1>3. Clean(k, {})
  BY <1>1, IInvClean DEF Down
<1>4. PICK o \in BoardInit(k) :
         /\ pnp' = IF <<0, "pnp">> \in o.k.held THEN 1 ELSE 0
         /\ IF ~o.ok THEN k' = o.k /\ UNCHANGED <<pc, total, next>>
            ELSE IF n > 0
            THEN k' = o.k /\ pc' = "loading" /\ total' = n /\ next' = 1
            ELSE /\ IF drv \in {"isa", "mem", "peak_dng"}
                    THEN k' = PnpExit(o.k, pnp') /\ pc' = "out"
                    ELSE k' = o.k /\ pc' = "in"
                 /\ total' = 0 /\ UNCHANGED next
  BY DEF Load
<1>5. BoardOutcome(o)
  BY <1>2, <1>3, BoardInitShape
<1>9. /\ pnp' \in {0, 1} /\ (pnp' = 1 <=> <<0, "pnp">> \in o.k.held)
      /\ pnp' = 1 => drv \in {"peak_dng", "serial"}
  <2>1. pnp' \in {0, 1} /\ (pnp' = 1 <=> <<0, "pnp">> \in o.k.held)
    BY <1>4
  <2>2. ASSUME <<0, "pnp">> \in o.k.held PROVE "pnp" \in PnpBoard
    <3>1. "pnp" \notin KnownLeaks
      BY DEF KnownLeaks
    <3>2. 0 \notin 1..0 /\ <<0, "pnp">>[1] = 0 /\ <<0, "pnp">>[2] = "pnp"
      OBVIOUS
    <3> QED
      BY <1>5, <2>2, <3>1, <3>2 DEF BoardOutcome, Loaded, Clean
  <2>3. "pnp" \in PnpBoard => drv \in {"peak_dng", "serial"}
    BY DEF PnpBoard, Board
  <2> QED
    BY <2>1, <2>2, <2>3
<1>6. CASE o.ok = FALSE
  <2>1. k' = o.k /\ pc' = "out" /\ total' = 0 /\ next' = 1
    BY <1>1, <1>2, <1>4, <1>6
  <2>2. Clean(o.k, {})
    BY <1>5, <1>6 DEF BoardOutcome
  <2>3. Clean(k', ghosts')
    BY <1>1, <2>1, <2>2
  <2> QED
    BY <1>1, <1>2, <1>9, <2>1, <2>3, CleanIInv
<1>7. CASE o.ok = TRUE /\ n > 0
  <2>1. k' = o.k /\ pc' = "loading" /\ total' = n /\ next' = 1
    BY <1>4, <1>7
  <2>2. Loaded(k', 0) /\ next' - 1 = 0
    BY <1>5, <1>7, <2>1 DEF BoardOutcome
  <2>3. drv \in {"peak_pci", "ixxat_pci"} => n \in {1, 2}
    BY <1>1 DEF Totals
  <2>4. drv = "core" => n = 1
    BY <1>1 DEF Totals
  <2>5. Position'
    BY <1>1, <1>2, <1>7, <2>1, <2>2, <2>3, <2>4 DEF Position, Loaded, Down
  <2>6. PnpKnown' /\ ~Down'
    BY <1>1, <1>9, <2>1 DEF PnpKnown, Down
  <2> QED
    BY <1>1, <2>2, <2>5, <2>6, LoadedIInv
<1>8. CASE o.ok = TRUE /\ n = 0
  <2>1. /\ total' = 0 /\ next' = 1
        /\ IF drv \in {"isa", "mem", "peak_dng"}
           THEN k' = PnpExit(o.k, pnp') /\ pc' = "out"
           ELSE k' = o.k /\ pc' = "in"
    BY <1>2, <1>4, <1>8
  <2>2. Loaded(o.k, 0)
    BY <1>5, <1>8 DEF BoardOutcome
  <2>3. drv \notin {"peak_pci", "ixxat_pci", "core"}
    BY <1>1, <1>8 DEF Totals
  <2>4. CASE drv \in {"isa", "mem", "peak_dng"}
    <3> DEFINE p == PnpExit(o.k, pnp')
    <3>1. o.k \in Kernels
      BY <2>2 DEF Loaded
    <3>2. p \in Kernels /\ p.wrong = o.k.wrong /\ p.held = o.k.held \ {<<0, "pnp">>}
      BY <1>9, <3>1, PnpExitShape
    <3> HIDE DEF p
    <3>3. ASSUME NEW h \in p.held PROVE h[2] \in KnownLeaks
      <4>1. h \in o.k.held /\ h # <<0, "pnp">> /\ h = <<h[1], h[2]>>
        BY <3>1, <3>2 DEF Kernels
      <4>2. PnpBoard \subseteq {"pnp"}
        BY <2>3 DEF PnpBoard, Board
      <4>3. ~(h[1] = 0 /\ h[2] \in PnpBoard)
        BY <4>1, <4>2
      <4>4. h[1] \notin 1..0
        OBVIOUS
      <4> QED
        BY <2>2, <4>1, <4>3, <4>4 DEF Loaded
    <3>4. \A w \in p.wrong : KnownWrong(w)
      BY <2>2, <3>2 DEF Loaded
    <3>5. Clean(p, {})
      BY <3>2, <3>3, <3>4 DEF Clean
    <3>6. k' = p /\ pc' = "out"
      BY <2>1, <2>4 DEF p
    <3>7. Clean(k', ghosts')
      BY <1>1, <3>5, <3>6
    <3> QED
      BY <1>1, <1>2, <1>9, <2>1, <3>6, <3>7, CleanIInv
  <2>5. CASE drv \notin {"isa", "mem", "peak_dng"}
    <3>1. k' = o.k /\ pc' = "in"
      BY <2>1, <2>5
    <3>2. Loaded(k', next' - 1)
      BY <2>1, <2>2, <3>1
    <3>3. Position'
      BY <1>1, <1>2, <2>1, <2>3, <3>1, <3>2 DEF Position, Loaded, Down
    <3>4. PnpKnown' /\ ~Down'
      BY <1>1, <1>9, <3>1 DEF PnpKnown, Down
    <3> QED
      BY <1>1, <3>2, <3>3, <3>4, LoadedIInv
  <2> QED
    BY <2>4, <2>5
<1> QED
  <2>1. n > 0 \/ n = 0
    BY <1>2
  <2> QED
    BY <1>5, <1>6, <1>7, <1>8, <2>1 DEF BoardOutcome

(* The next turn of the init loop: the device is set up, or all that were  *)
(* are given back.                                                         *)
LEMMA InitOneIInv ==
    ASSUME IInv, InitOne
    PROVE  IInv'
<1>1. pc = "loading" /\ drv' = drv /\ pnp' = pnp /\ ~Down
  BY DEF InitOne, Down
<1>2. /\ drv \in Drivers /\ total \in Nat /\ next \in Nat \ {0} /\ next <= total /\ ghosts = {}
      /\ (drv \in {"peak_pci", "ixxat_pci"} => total \in {1, 2})
      /\ (drv = "core" => total <= 1) /\ (drv = "serial" => next = 1) /\ k \in Kernels
      /\ pnp \in {0, 1} /\ (pnp = 1 => drv \in {"peak_dng", "serial"})
      /\ (pnp = 1 <=> <<0, "pnp">> \in k.held)
  BY <1>1 DEF IInv, Position, PnpKnown
<1>3. Loaded(k, next - 1)
  BY <1>1, IInvLoaded
<1>4. PICK o \in DeviceInit(k, next), busy \in SUBSET running :
         IF o.ok
         THEN /\ busy = {} /\ k' = o.k
              /\ pc' = IF drv = "peak_pci" /\ total = 1 THEN "oops"
                       ELSE IF next = total THEN "in" ELSE "loading"
              /\ next' = next + 1
              /\ UNCHANGED <<running, ghosts, total>>
         ELSE /\ k' = Cleanup(o.k, next, o.at, busy)
              /\ pc' = IF StaysLoaded(o.at) THEN "spent" ELSE "out"
              /\ total' = IF StaysLoaded(o.at) THEN next - 1 ELSE 0
              /\ next' = 1 /\ running' = {} /\ ghosts' = busy
  BY DEF InitOne
<1>5. DeviceOutcome(o, k, next) /\ (drv = "serial" => o.ok = FALSE)
  <2>1. next \in Nat /\ (drv = "peak_pci" => next \in {1, 2})
    BY <1>2
  <2> QED
    BY <1>2, <2>1, DeviceInitShape
<1> DEFINE n == next - 1
<1>6. n \in Nat /\ n + 1 = next
  BY <1>2
<1>7. CASE o.ok = TRUE
  <2>1. /\ k' = o.k /\ next' = next + 1 /\ ghosts' = ghosts /\ total' = total
        /\ pc' = IF drv = "peak_pci" /\ total = 1 THEN "oops"
                 ELSE IF next = total THEN "in" ELSE "loading"
    BY <1>4, <1>7
  <2>2. Added(k, o.k, n + 1)
    BY <1>5, <1>6, <1>7 DEF DeviceOutcome
  <2>3. Loaded(o.k, n + 1)
    BY <1>3, <1>6, <2>2, AddedLoaded
  <2>4. Loaded(k', next' - 1)
    <3>1. next' - 1 = n + 1
      BY <1>2, <2>1
    <3> QED
      BY <2>1, <2>3, <3>1
  <2>5. pc' \in {"oops", "in", "loading"} /\ ~Down'
    BY <2>1 DEF Down
  <2>6. k' \in Kernels
    BY <2>4 DEF Loaded
  <2>7. drv # "serial"
    BY <1>5, <1>7
  <2>8. Position'
    BY <1>1, <1>2, <2>1, <2>5, <2>6, <2>7 DEF Position
  <2>9. <<0, "pnp">> \in o.k.held <=> <<0, "pnp">> \in k.held
    <3>1. n + 1 # 0 /\ <<0, "pnp">>[1] = 0
      BY <1>6
    <3> QED
      BY <2>2, <3>1 DEF Added
  <2>10. PnpKnown'
    BY <1>1, <1>2, <2>1, <2>9 DEF PnpKnown
  <2> QED
    BY <1>1, <2>4, <2>5, <2>8, <2>10, LoadedIInv
<1>8. CASE o.ok = FALSE
  <2>1. /\ k' = Cleanup(o.k, next, o.at, busy)
        /\ pc' = IF StaysLoaded(o.at) THEN "spent" ELSE "out"
        /\ total' = IF StaysLoaded(o.at) THEN next - 1 ELSE 0
        /\ next' = 1 /\ ghosts' = busy
    BY <1>4, <1>8
  <2>2. Failed(k, o.k, n + 1, KnownLeaks)
    BY <1>5, <1>6, <1>8 DEF DeviceOutcome
  <2>3. Loaded(o.k, n)
    BY <1>3, <1>6, <2>2, FailedLoaded
  <2>6. <<0, "pnp">> \in o.k.held <=> <<0, "pnp">> \in k.held
    <3>1. n + 1 # 0 /\ <<0, "pnp">>[1] = 0
      BY <1>6
    <3> QED
      BY <2>2, <3>1 DEF Failed
  <2> HIDE DEF n
  <2>4. Clean(Cleanup(o.k, next, o.at, busy), busy)
    <3>1. CASE drv = "peak_pci"
      <4>1. Cleanup(o.k, next, o.at, busy) = PeakCleanup(o.k, next, 1 \in busy)
        BY <3>1 DEF Cleanup
      <4>2. next \in {1, 2} /\ Loaded(o.k, next - 1)
        BY <1>2, <2>3, <3>1 DEF n
      <4> QED
        BY <3>1, <4>1, <4>2, PeakCleanupClean
    <3>2. CASE drv = "ixxat_pci"
      <4>1. Cleanup(o.k, next, o.at, busy) = IxxatCleanup(o.k, next, o.at, 1 \in busy)
        BY <3>2 DEF Cleanup
      <4>2. next \in {1, 2} /\ Loaded(o.k, next - 1)
        BY <1>2, <2>3, <3>2 DEF n
      <4> QED
        BY <3>2, <4>1, <4>2, IxxatCleanupClean
    <3>3. CASE drv = "core"
      <4>1. Cleanup(o.k, next, o.at, busy) = o.k /\ n = 0
        BY <1>2, <3>3 DEF Cleanup, n
      <4>2. PnpBoard = {} /\ 1..0 = {}
        BY <3>3 DEF PnpBoard, Board
      <4>3. Loaded(o.k, 0)
        BY <2>3, <4>1
      <4>4. Clean(o.k, busy)
        BY <4>2, <4>3 DEF Loaded, Clean
      <4> QED
        BY <4>1, <4>4
    <3>4. CASE drv \notin {"peak_pci", "ixxat_pci", "core"}
      <4>1. Cleanup(o.k, next, o.at, busy) = ExitDevices(o.k, n, busy)
        BY <3>4 DEF Cleanup, n
      <4>2. drv \in Plain /\ (drv = "serial" => n = 0)
        BY <1>2, <3>4, BoardDriversAssumption DEF Plain, n
      <4> QED
        BY <1>2, <1>6, <2>3, <2>6, <4>1, <4>2, ExitDevicesClean
    <3> QED
      BY <3>1, <3>2, <3>3, <3>4
  <2>5. Clean(k', ghosts')
    BY <2>1, <2>4
  <2>7. /\ pc' \in {"out", "spent"} /\ total' \in Nat
        /\ pc' = "out" \/ drv = "serial" => total' = 0
        /\ pc' = "spent" => drv \in {"mscan", "serial"}
    BY <1>2, <2>1 DEF StaysLoaded
  <2> QED
    BY <1>1, <1>2, <2>1, <2>5, <2>7, CleanIInv
<1> QED
  BY <1>5, <1>7, <1>8 DEF DeviceOutcome

(* Unloading *)
LEMMA ExitIInv ==
    ASSUME IInv, Exit
    PROVE  IInv'
<1>1. pc = "in" /\ pc' = "out" /\ total' = 0 /\ next' = 1 /\ drv' = drv
      /\ pnp' = pnp /\ ~Down
  BY DEF Exit, Down
<1>2. /\ drv \in Drivers /\ total \in Nat /\ next = total + 1
      /\ (drv = "ixxat_pci" => total \in {1, 2}) /\ (drv = "peak_pci" => total = 2)
      /\ (drv = "serial" => total = 0)
      /\ pnp \in {0, 1} /\ (pnp = 1 => drv \in {"peak_dng", "serial"})
      /\ (pnp = 1 <=> <<0, "pnp">> \in k.held)
  BY <1>1 DEF IInv, Position, PnpKnown
<1>3. Loaded(k, total)
  <2>1. next - 1 = total
    BY <1>2
  <2> QED
    BY <1>1, <2>1, IInvLoaded
<1>4. PICK busy \in SUBSET running :
         /\ k' = CASE drv = "peak_pci" -> PeakRemove(k, busy)
                   [] drv = "ixxat_pci" -> IxxatRemove(k, total, busy)
                   [] OTHER -> ExitDevices(k, total, busy)
         /\ ghosts' = busy
  BY DEF Exit
<1>5. Clean(k', busy)
  <2>1. CASE drv = "peak_pci"
    <3>1. k' = PeakRemove(k, busy) /\ Loaded(k, 2)
      BY <1>2, <1>3, <1>4, <2>1
    <3> QED
      BY <2>1, <3>1, PeakRemoveClean
  <2>2. CASE drv = "ixxat_pci"
    <3>1. k' = IxxatRemove(k, total, busy) /\ total \in {1, 2}
      BY <1>2, <1>4, <2>2
    <3> QED
      BY <1>3, <2>2, <3>1, IxxatRemoveClean
  <2>3. CASE drv \notin {"peak_pci", "ixxat_pci"}
    <3>1. k' = ExitDevices(k, total, busy)
      BY <1>4, <2>3
    <3>2. drv \in Plain
      BY <1>2, <2>3, BoardDriversAssumption DEF Plain
    <3>3. Clean(ExitDevices(k, total, busy), busy)
      BY <1>2, <1>3, <3>2, ExitDevicesClean
    <3> QED
      BY <3>1, <3>3
  <2> QED
    BY <2>1, <2>2, <2>3
<1>6. Clean(k', ghosts')
  BY <1>4, <1>5
<1> QED
  BY <1>1, <1>2, <1>6, CleanIInv

(* The exit function of the MSCAN driver, whatever is held *)
LEMMA MscanExitKernel ==
    ASSUME NEW s \in Kernels, NEW i \in Nat, NEW busy \in BOOLEAN
    PROVE  MscanExitOne(s, i, busy) \in Kernels
<1> DEFINE q == Put(s, i, {"irq"})
           a == Access(q, i, {"dev"})
           p == {r \in {"proc", "stale"} : <<i, r>> \in q.held}
           H == a.held \ ({i} \X p)
           W == a.wrong \cup ({i} \X (p \cap {"stale"}))
           b == [a EXCEPT !.held = H, !.wrong = W]
           u == IF busy THEN a ELSE Put(b, i, {"table"})
<1>1. /\ {"irq"} \in SUBSET Names /\ {"dev"} \in SUBSET Names /\ {"table"} \in SUBSET Names
      /\ {"proc", "stale"} \in SUBSET Names
  BY DEF Names
<1>2. MscanExitOne(s, i, busy) = Put(u, i, {"dev"})
  BY DEF MscanExitOne, Unregister
<1>3. q \in Kernels
  BY <1>1, PutShape
<1> HIDE DEF q
<1>4. a \in Kernels
  BY <1>1, <1>3, AccessShape
<1>5. p \in SUBSET Names
  BY <1>1
<1> HIDE DEF a, p
<1>6. H \in SUBSET (Nat \X Names) /\ W \in SUBSET (Nat \X Names)
  <2>1. a.held \in SUBSET (Nat \X Names) /\ a.wrong \in SUBSET (Nat \X Names)
    BY <1>4 DEF Kernels
  <2>2. {i} \X (p \cap {"stale"}) \in SUBSET (Nat \X Names)
    BY <1>5
  <2> QED
    BY <2>1, <2>2
<1> HIDE DEF H, W
<1>7. b \in Kernels
  BY <1>4, <1>6 DEF Kernels
<1> HIDE DEF b
<1>8. u \in Kernels
  <2>1. Put(b, i, {"table"}) \in Kernels
    BY <1>1, <1>7, PutShape
  <2> QED
    BY <1>4, <2>1
<1> HIDE DEF u
<1> QED
  BY <1>1, <1>2, <1>8, PutShape

(* A second exit takes nothing new, whatever it does wrong. *)
LEMMA ExitDevicesAgain ==
    ASSUME drv \in {"mscan", "serial"}, NEW n \in Nat, drv = "serial" => n = 0,
           NEW s \in Kernels, NEW busy, pnp \in {0, 1}
    PROVE  ExitDevices(s, n, busy) \in Kernels /\ ExitDevices(s, n, busy).held \subseteq s.held
<1> DEFINE after == [i \in 1..n |-> ExitOne(s, i, i \in busy)]
           H == {h \in s.held : \A i \in 1..n : h \in after[i].held}
           W == s.wrong \cup UNION {after[i].wrong : i \in 1..n}
           e == [held |-> H, wrong |-> W]
<1>1. ASSUME NEW i \in 1..n PROVE after[i] \in Kernels
  <2>1. drv = "mscan" /\ i \in Nat /\ (i \in busy) \in BOOLEAN
    OBVIOUS
  <2>2. after[i] = MscanExitOne(s, i, i \in busy)
    BY <2>1 DEF ExitOne
  <2> QED
    BY <2>1, <2>2, MscanExitKernel
<1>2. ExitDevices(s, n, busy) = PnpExit(e, pnp)
  BY DEF ExitDevices
<1> HIDE DEF after
<1>3. H \subseteq s.held /\ H \in SUBSET (Nat \X Names) /\ W \in SUBSET (Nat \X Names)
  BY <1>1 DEF Kernels
<1> HIDE DEF H, W
<1>4. e \in Kernels /\ e.held \subseteq s.held
  BY <1>3 DEF Kernels
<1> HIDE DEF e
<1>5. {"pnp"} \in SUBSET Names
  BY DEF Names
<1>6. Put(e, 0, {"pnp"}) \in Kernels /\ Put(e, 0, {"pnp"}).held = e.held \ ({0} \X {"pnp"})
  BY <1>4, <1>5, PutShape
<1>7. PnpExit(e, pnp) \in Kernels /\ PnpExit(e, pnp).held \subseteq s.held
  BY <1>4, <1>6 DEF PnpExit
<1> QED
  BY <1>2, <1>7

(* Unloading a module that had cleaned up *)
LEMMA ExitAgainIInv ==
    ASSUME IInv, ExitAgain
    PROVE  IInv'
<1>1. /\ pc = "spent" /\ Down /\ drv' = drv /\ next' = next /\ total' = 0
      /\ ghosts' = ghosts /\ pnp' = pnp
      /\ pc' = IF k'.wrong = k.wrong THEN "out" ELSE "twice"
  BY DEF ExitAgain, Down
<1>2. /\ drv \in Drivers /\ drv \in {"mscan", "serial"} /\ total \in Nat /\ next = 1
      /\ (drv = "serial" => total = 0) /\ k \in Kernels
      /\ pnp \in {0, 1} /\ (pnp = 1 => drv \in {"peak_dng", "serial"})
  BY <1>1 DEF IInv, Position, PnpKnown
<1>3. Clean(k, ghosts)
  BY <1>1, IInvClean
<1>4. k' \in Kernels /\ k'.held \subseteq k.held
  <2>1. PICK busy \in SUBSET (1..total) : k' = ExitDevices(k, total, busy)
    BY DEF ExitAgain
  <2> QED
    BY <1>2, <2>1, ExitDevicesAgain
<1>5. CASE k'.wrong = k.wrong
  <2>1. Clean(k', ghosts')
    BY <1>1, <1>3, <1>4, <1>5 DEF Clean
  <2> QED
    BY <1>1, <1>2, <1>5, <2>1, CleanIInv
<1>6. CASE k'.wrong # k.wrong
  <2>1. pc' = "twice" /\ Down'
    BY <1>1, <1>6 DEF Down
  <2>2. Position' /\ PnpKnown'
    BY <1>1, <1>2, <1>4, <2>1 DEF Position, PnpKnown
  <2>3. HeldOnly'
    BY <1>1, <1>3, <1>4, SameDriver DEF HeldOnly, Clean
  <2>4. HeldAll'
    BY <2>1 DEF HeldAll
  <2>5. GivenBackOnce'
    BY <1>1, <1>2, <2>1 DEF GivenBackOnce
  <2> QED
    BY <2>2, <2>3, <2>4, <2>5 DEF IInv
<1> QED
  BY <1>5, <1>6

(* The invariant holds at first. *)
LEMMA InitIInv ==
    ASSUME Init
    PROVE  IInv
<1>1. k \in Kernels /\ k.held = {} /\ k.wrong = {}
  BY DEF Init, Kernels
<1>2. pc = "out" /\ total = 0 /\ next = 1 /\ ghosts = {} /\ drv \in Drivers
      /\ pnp = 0
  BY DEF Init
<1>3. Position /\ Down
  BY <1>1, <1>2 DEF Position, Down
<1>4. PnpKnown
  BY <1>2, <1>3 DEF PnpKnown
<1> QED
  BY <1>1, <1>3, <1>4 DEF IInv, HeldOnly, HeldAll, GivenBackOnce

(* Every step keeps it. *)
LEMMA NextIInv ==
    ASSUME IInv, [Next]_vars
    PROVE  IInv'
<1>1. ASSUME UNCHANGED <<drv, pc, total, next, k, ghosts, pnp>> PROVE IInv'
  <2>1. Down' <=> Down
    BY <1>1 DEF Down
  <2>2. Position' /\ PnpKnown'
    BY <1>1, <2>1 DEF IInv, Position, PnpKnown
  <2>3. HeldOnly'
    BY <1>1, <2>1, SameDriver DEF IInv, HeldOnly
  <2>4. HeldAll'
    BY <1>1, <2>1, SameDriver DEF IInv, HeldAll
  <2>5. GivenBackOnce'
    BY <1>1, SameDriver DEF IInv, GivenBackOnce
  <2> QED
    BY <2>2, <2>3, <2>4, <2>5 DEF IInv
<1>2. CASE \E n \in 0..(MaxDev + 1) : Load(n)
  BY <1>2, LoadIInv
<1>3. CASE InitOne
  BY <1>3, InitOneIInv
<1>4. CASE Exit
  BY <1>4, ExitIInv
<1>7. CASE ExitAgain
  BY <1>7, ExitAgainIInv
<1>5. CASE \E i \in 1..(MaxDev + 1) : StartDevice(i) \/ StopDevice(i)
  BY <1>1, <1>5 DEF StartDevice, StopDevice
<1>6. CASE UNCHANGED vars
  BY <1>1, <1>6 DEF vars
<1> QED
  BY <1>2, <1>3, <1>4, <1>5, <1>6, <1>7 DEF Next

-----------------------------------------------------------------------------
(* The theorems.                                                           *)

(* The invariant holds in every state. *)
THEOREM Invariance == Spec => []IInv
<1>1. Init => IInv
  BY InitIInv
<1>2. IInv /\ [Next]_vars => IInv'
  BY NextIInv
<1> QED
  BY <1>1, <1>2, PTL DEF Spec

(* Whichever step of whichever device of whichever driver fails, whether   *)
(* or not the kernel sees the failure, and after every unload, nothing is  *)
(* held but the known leaks and the entries of devices that were busy: for *)
(* every number of devices.                                                *)
THEOREM ErrorExitsComplete == Spec => []NothingElseHeld
<1>1. IInv => NothingElseHeld
  BY DEF IInv, HeldOnly, NothingElseHeld, Procs
<1> QED
  BY <1>1, Invariance, PTL

(* Until the exit function of the MSCAN or the 16550A driver runs over the *)
(* devices that its own failed init function had freed, no error exit or   *)
(* exit function of any driver gives anything back twice, or accesses what *)
(* was given back: but for a stale /proc directory, and the mapping of an  *)
(* IXXAT board and the reset of its slave.  No other driver ever does.     *)
THEOREM NoDoubleRelease == Spec => []GivenBackOnce
<1>1. IInv => GivenBackOnce
  BY DEF IInv
<1> QED
  BY <1>1, Invariance, PTL

(* An entry of rtcan_devices points to a structure that exists, unless its *)
(* driver freed it although rtcan_dev_unregister said -EBUSY.              *)
THEOREM EntriesBacked == Spec => []TableBacked
<1>1. ASSUME IInv, NEW i \in 1..(MaxDev + 1), <<i, "table">> \in k.held
      PROVE  <<i, "dev">> \in k.held \/ i \in ghosts
  <2>1. "table" \notin KnownLeaks /\ "table" \notin PnpBoard
    BY DEF KnownLeaks, PnpBoard, Board
  <2>2. CASE Down
    BY <1>1, <2>1, <2>2 DEF IInv, HeldOnly
  <2>3. CASE ~Down
    <3>1. i \in 1..(next - 1) /\ "table" \in May(i)
      BY <1>1, <2>1, <2>3, IInvLoaded DEF Loaded
    <3>2. "dev" \in Whole(i)
      BY <3>1 DEF May, Whole, Procs
    <3> QED
      BY <1>1, <2>3, <3>1, <3>2, IInvLoaded DEF Loaded
  <2> QED
    BY <2>2, <2>3
<1>2. IInv => TableBacked
  BY <1>1 DEF TableBacked
<1> QED
  BY <1>2, Invariance, PTL
=============================================================================
