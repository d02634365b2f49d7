-------------------------- MODULE LifecycleProofs --------------------------
(***************************************************************************)
(* Proofs about Lifecycle, for any number of device connections and HTTP   *)
(* requests, and every place where the start may fail.                     *)
(*                                                                         *)
(* OrderlyTeardown holds because the WaitGroup counts the connections that *)
(* run (Counted), because a file session belongs to such a connection, and *)
(* because the deferred calls form a stack with the pool at its bottom and *)
(* the measurement store above it (Stacked); a failed start meets          *)
(* connections only if it got as far as the listener (Unserved).           *)
(* AtMostOneLate holds because ListenAndServe has one connection at a time *)
(* in hand (OneInHand), and Accept yields no other once the listener is    *)
(* closed (Unlistened).                                                    *)
(***************************************************************************)
EXTENDS Lifecycle, FiniteSetTheorems, SequenceTheorems, TLAPS

Serving == {c \in Conn :
              conn[c] \in {"running", "handling", "querying", "closing"}}
Active == Serving \union {c \in Conn : conn[c] \in {"spawned", "closed"}}
Queued == {c \in Conn : conn[c] = "queued"}
Querying == {c \in Conn : conn[c] = "querying"}

\* The stages that come after wg.Wait, and those after the listener's Close.
AfterWait == {"files", "channels", "return", "exited"}
AfterUnlisten == AfterWait \union {"wait"}

Stage == {"boot", "select", "draining", "quit", "unlisten"} \union AfterUnlisten

Service == {"pool", "measurements", "clock", "hub", "health"}

LifeTypeOK ==
  /\ stage \in Stage
  /\ step \in Nat \ {0}
  /\ defers \in Seq(Service)
  /\ graceful \in BOOLEAN /\ missed \in BOOLEAN
  /\ acceptor \in {"off", "listen", "accept", "counting", "ended"}
  /\ ln \in {"nil", "open", "closed"}
  /\ conn \in [Conn -> {"none", "queued", "spawned", "running", "handling",
                        "querying", "closing", "closed", "done"}]
  /\ late \subseteq Conn
  /\ graceful => stage \notin {"boot", "select"}
  /\ stage \notin {"boot", "select", "return", "exited"} => graceful

Counted == IsFiniteSet(Active) /\ wg = Cardinality(Active)

\* After wg.Wait only late connections run; a file session needs a
\* connection that runs.
Waited == /\ graceful /\ stage \in AfterWait => Active \subseteq late
          /\ late # {} => graceful /\ stage \in AfterWait
          /\ files \subseteq Serving

\* The connection Accept returned last; one that was late was that one.
OneInHand ==
  /\ acceptor = "counting" <=> Queued # {}
  /\ ~missed => \A c, d \in late \union Queued : c = d
  /\ \A c, d \in Queued : c = d

\* Only a start that fails in web.NewServer, step 10, may have connections.
Unserved ==
  /\ step <= 9 => acceptor = "off"
  /\ acceptor \in {"off", "listen"} => \A c \in Conn : conn[c] = "none"
  /\ stage \in {"return", "exited"} /\ ~graceful => step \in {1, 2, 3, 5, 10}

Unlistened ==
  /\ acceptor \in {"off", "listen"} => ln = "nil"
  /\ acceptor \in {"accept", "counting"} => ln # "nil"
  /\ graceful /\ stage \in AfterUnlisten /\ ~missed => ln = "closed"

Stacked ==
  /\ Len(defers) >= 1 => defers[1] = "pool"
  /\ Len(defers) >= 2 => defers[2] = "measurements"
  /\ \A i \in 3..Len(defers) : defers[i] \notin {"pool", "measurements"}
  /\ "pool" \in up <=> Len(defers) >= 1
  /\ "measurements" \in up => Len(defers) >= 2
  /\ reqs # {} \/ Querying # {} => Len(defers) >= 1
  /\ http = "open" => stage = "select"
  /\ stage = "boot" /\ step <= 2 => Len(defers) = 0
  /\ stage = "boot" /\ step \in {3, 4} => Len(defers) = 1
  /\ stage = "boot" /\ step > 4 => Len(defers) >= 2
  /\ stage = "select" => Len(defers) >= 2
  /\ stage = "boot" => step <= Len(Steps)

LifeInv == /\ LifeTypeOK /\ Counted /\ Waited /\ OneInHand /\ Unserved
           /\ Unlistened /\ Stacked

----------------------------------------------------------------------------
LEMMA LifeInit == Init => LifeInv
<1> SUFFICES ASSUME Init PROVE LifeInv
  OBVIOUS
<1>1. Active = {} /\ Queued = {} /\ Querying = {} /\ Serving = {}
  BY DEF Init, Active, Serving, Queued, Querying
<1>2. Counted
  BY <1>1, FS_EmptySet DEF Init, Counted
<1>3. LifeTypeOK
  <2>1. defers \in Seq(Service)
    BY DEF Init
  <2>2. conn \in [Conn -> {"none", "queued", "spawned", "running", "handling",
                         "querying", "closing", "closed", "done"}]
    BY DEF Init
  <2>3. stage \in Stage /\ stage = "boot" /\ ~graceful
    BY DEF Init, Stage
  <2>4. graceful \in BOOLEAN /\ missed \in BOOLEAN
    BY Zenon DEF Init
  <2>5. /\ step \in Nat \ {0}
        /\ acceptor \in {"off", "listen", "accept", "counting", "ended"}
        /\ ln \in {"nil", "open", "closed"} /\ late \subseteq Conn
    BY DEF Init
  <2>6. QED
    BY <2>1, <2>2, <2>3, <2>4, <2>5 DEF LifeTypeOK
<1>4. Waited /\ OneInHand /\ Unserved /\ Unlistened
  BY <1>1 DEF Init, Waited, OneInHand, Unserved, Unlistened
<1>5. Stacked
  BY <1>1 DEF Init, Stacked, Steps
<1>6. QED
  BY <1>2, <1>3, <1>4, <1>5 DEF LifeInv

\* What leaves the connections and their counters alone.
LEMMA ConnsKept ==
  ASSUME LifeInv, UNCHANGED <<wg, conn>>
  PROVE  Counted' /\ UNCHANGED <<Active, Serving, Queued, Querying>>
  BY DEF LifeInv, Counted, Active, Serving, Queued, Querying

\* What leaves main, the HTTP server and what runs alone.
LEMMA StackKept ==
  ASSUME LifeInv, UNCHANGED <<stage, step, defers, up, http, reqs>>,
         Querying' \subseteq Querying
  PROVE  Stacked'
  BY DEF LifeInv, Stacked

\* What leaves the start and the acceptor alone and adds no connection.
LEMMA UnservedKept ==
  ASSUME LifeInv, UNCHANGED <<step, acceptor>>,
         \A c \in Conn : conn[c] = "none" => conn'[c] = "none",
         stage' \in {"return", "exited"} /\ ~graceful' =>
           stage \in {"return", "exited"} /\ ~graceful
  PROVE  Unserved'
  BY DEF LifeInv, Unserved

----------------------------------------------------------------------------
(* main.                                                                   *)

\* What each step of run starts.
LEMMA Started ==
  /\ Len(Steps) = 11
  /\ \A i \in 1..11 :
       Starts(Steps[i]) = IF i = 2 THEN <<"pool">>
                          ELSE IF i = 4 THEN <<"measurements">>
                          ELSE IF i = 6 THEN <<"clock">>
                          ELSE IF i = 7 THEN <<"hub">>
                          ELSE IF i = 8 THEN <<"health">> ELSE <<>>
<1>1. Len(Steps) = 11
  BY DEF Steps
<1>2. /\ Steps[1] = "config" /\ Steps[2] = "connect" /\ Steps[3] = "migrate"
      /\ Steps[4] = "measurements" /\ Steps[5] = "bootstrap"
      /\ Steps[6] = "clock" /\ Steps[7] = "hub" /\ Steps[8] = "health"
      /\ Steps[9] = "crypto" /\ Steps[10] = "web" /\ Steps[11] = "http"
  BY DEF Steps
<1>3. /\ Starts("connect") = <<"pool">> /\ Starts("measurements") = <<"measurements">>
      /\ Starts("clock") = <<"clock">> /\ Starts("hub") = <<"hub">>
      /\ Starts("health") = <<"health">>
      /\ \A s \in {"config", "migrate", "bootstrap", "crypto", "web", "http"} :
           Starts(s) = <<>>
  BY DEF Starts
<1>4. ASSUME NEW i \in 1..11
      PROVE  i = 1 \/ i = 2 \/ i = 3 \/ i = 4 \/ i = 5 \/ i = 6 \/ i = 7
             \/ i = 8 \/ i = 9 \/ i = 10 \/ i = 11
  OBVIOUS
<1>5. QED
  BY <1>1, <1>2, <1>3, <1>4

\* defer, of one call.
LEMMA Pushed ==
  ASSUME defers \in Seq(Service), NEW x \in Service, defers' = defers \o <<x>>
  PROVE  /\ defers' \in Seq(Service) /\ Len(defers) \in Nat
         /\ Len(defers') = Len(defers) + 1
         /\ \A i \in 1..Len(defers) : defers'[i] = defers[i]
         /\ defers'[Len(defers) + 1] = x
<1>1. <<x>> \in Seq(Service) /\ Len(<<x>>) = 1 /\ <<x>>[1] = x
  OBVIOUS
<1>2. QED
  BY <1>1

LEMMA BootStep ==
  ASSUME LifeInv, Boot
  PROVE  LifeInv'
<1>1. /\ step \in 1..11 /\ stage = "boot" /\ step' = step + 1
      /\ stage' = IF step = 11 THEN "select" ELSE "boot"
      /\ defers' = defers \o Starts(Steps[step])
      /\ up' = up \union ToSet(Starts(Steps[step]))
      /\ ~graceful
  BY Started DEF Boot, Defer, LifeInv, LifeTypeOK, Stacked
<1>2. defers \in Seq(Service) /\ Len(defers) \in Nat
  BY DEF LifeInv, LifeTypeOK
<1>3. /\ Steps[1] = "config" /\ Steps[9] = "crypto" /\ Steps[11] = "http"
      /\ \A i \in 1..11 : /\ Steps[i] = "http" => i = 11
                          /\ Steps[i] = "crypto" => i = 9
  BY DEF Steps
<1>4. ASSUME NEW x \in Service, Starts(Steps[step]) = <<x>>
      PROVE  /\ defers' \in Seq(Service) /\ Len(defers') = Len(defers) + 1
             /\ \A i \in 1..Len(defers) : defers'[i] = defers[i]
             /\ defers'[Len(defers) + 1] = x
             /\ up' = up \union {x}
  <2>1. ToSet(<<x>>) = {x}
    BY DEF ToSet
  <2>2. QED
    BY <1>1, <1>2, <1>4, <2>1, Pushed
<1>5. ASSUME Starts(Steps[step]) = <<>>
      PROVE  defers' = defers /\ up' = up
  <2>1. ToSet(<<>>) = {}
    BY DEF ToSet
  <2>2. QED
    BY <1>1, <1>2, <1>5, <2>1
<1>6. Counted' /\ UNCHANGED <<Active, Serving, Queued, Querying>>
  BY ConnsKept DEF Boot
<1>7. defers' \in Seq(Service) /\ Stacked'
  <2>1. http' = "open" => step = 11
    BY <1>1, <1>3 DEF Boot, LifeInv, Stacked
  <2>2. CASE step = 2
    <3>1. Starts(Steps[step]) = <<"pool">> /\ "pool" \in Service
      BY <2>2, Started DEF Service
    <3>2. Len(defers) = 0
      BY <1>1, <2>2 DEF LifeInv, Stacked
    <3>3. defers' \in Seq(Service) /\ Len(defers') = 1 /\ defers'[1] = "pool"
          /\ up' = up \union {"pool"}
      BY <1>4, <3>1, <3>2
    <3>4. QED
      BY <1>1, <2>1, <2>2, <3>2, <3>3, Started DEF Boot, LifeInv, Stacked
  <2>3. CASE step = 4
    <3>1. Starts(Steps[step]) = <<"measurements">> /\ "measurements" \in Service
      BY <2>3, Started DEF Service
    <3>2. Len(defers) = 1
      BY <1>1, <2>3 DEF LifeInv, Stacked
    <3>3. /\ defers' \in Seq(Service) /\ Len(defers') = 2
          /\ defers'[1] = defers[1] /\ defers'[2] = "measurements"
          /\ up' = up \union {"measurements"}
      BY <1>4, <3>1, <3>2
    <3>4. QED
      BY <1>1, <2>1, <2>3, <3>2, <3>3, Started DEF Boot, LifeInv, Stacked
  <2>4. CASE step \in {6, 7, 8}
    <3>1. PICK x \in Service : /\ Starts(Steps[step]) = <<x>>
                               /\ x \notin {"pool", "measurements"}
      BY <1>1, <2>4, Started DEF Service
    <3>2. Len(defers) >= 2
      BY <1>1, <2>4 DEF LifeInv, Stacked
    <3>3. /\ defers' \in Seq(Service) /\ Len(defers') = Len(defers) + 1
          /\ \A i \in 1..Len(defers) : defers'[i] = defers[i]
          /\ defers'[Len(defers) + 1] = x /\ up' = up \union {x}
      BY <1>4, <3>1
    <3>4. \A i \in 3..Len(defers') : defers'[i] \notin {"pool", "measurements"}
      <4> TAKE i \in 3..Len(defers')
      <4>1. i \in 3..Len(defers) \/ i = Len(defers) + 1
        BY <1>2, <3>3
      <4>2. QED
        BY <1>2, <3>1, <3>2, <3>3, <4>1 DEF LifeInv, Stacked
    <3>5. QED
      BY <1>1, <1>2, <2>1, <2>4, <3>1, <3>2, <3>3, <3>4, Started
      DEF Boot, LifeInv, Stacked
  <2>5. CASE step \notin {2, 4, 6, 7, 8}
    <3>1. defers' = defers /\ up' = up
      BY <1>1, <1>5, <2>5, Started
    <3>2. QED
      BY <1>1, <1>2, <1>6, <2>1, <2>5, <3>1, Started DEF Boot, LifeInv, Stacked
  <2>6. QED
    BY <2>2, <2>3, <2>4, <2>5
<1>8. /\ acceptor' = acceptor \/ (acceptor' = "listen" /\ step = 9)
      /\ stage' \notin AfterUnlisten
  BY <1>1, <1>3 DEF Boot, AfterUnlisten, AfterWait
<1>9. LifeTypeOK'
  BY <1>1, <1>7, <1>8 DEF Boot, LifeInv, LifeTypeOK, Stage
<1>10. Waited'
  BY <1>1, <1>6, <1>8 DEF Boot, LifeInv, Waited, AfterUnlisten
<1>11. OneInHand'
  BY <1>1, <1>6, <1>8 DEF Boot, LifeInv, OneInHand, Unserved, Unlistened
<1>12. Unserved' /\ Unlistened'
  <2>1. stage' \notin {"return", "exited"} /\ (step = 9 => acceptor = "off")
    BY <1>1 DEF LifeInv, Unserved
  <2>2. UNCHANGED <<conn, ln, graceful, missed>>
    BY DEF Boot
  <2>3. Unserved'
    BY <1>1, <1>8, <2>1, <2>2 DEF LifeInv, Unserved
  <2>4. Unlistened'
    BY <1>1, <1>8, <2>1, <2>2 DEF LifeInv, LifeTypeOK, Unlistened
  <2>5. QED
    BY <2>3, <2>4
<1>13. QED
  BY <1>6, <1>7, <1>9, <1>10, <1>11, <1>12 DEF LifeInv

\* The stages between select and the deferred calls, and the failed start.
LEMMA MainStepKept ==
  ASSUME LifeInv, NEW from, NEW to \in Stage, MainStep(from, to),
         from \notin {"boot", "select"}, to \notin {"boot", "select", "exited"},
         from \notin {"return", "exited"}
  PROVE  /\ LifeTypeOK' <=> missed' \in BOOLEAN /\ ln' \in {"nil", "open", "closed"}
         /\ Counted' /\ UNCHANGED <<Active, Serving, Queued, Querying>>
         /\ Stacked' /\ Unserved' /\ graceful /\ graceful' = graceful
<1>1. Counted' /\ UNCHANGED <<Active, Serving, Queued, Querying>>
  BY ConnsKept DEF MainStep, connVars
<1>2. graceful /\ graceful' = graceful
  BY DEF MainStep, LifeInv, LifeTypeOK
<1>3. Stacked' /\ Unserved'
  <2>1. Stacked'
    BY <1>1 DEF MainStep, LifeInv, Stacked
  <2>2. Unserved'
    BY <1>2, UnservedKept DEF MainStep, connVars
  <2>3. QED
    BY <2>1, <2>2
<1>4. LifeTypeOK' <=> missed' \in BOOLEAN /\ ln' \in {"nil", "open", "closed"}
  BY <1>2 DEF MainStep, LifeInv, LifeTypeOK, connVars
<1>5. QED
  BY <1>1, <1>2, <1>3, <1>4

LEMMA ShutdownStep ==
  ASSUME LifeInv, Shutdown
  PROVE  LifeInv'
<1> USE DEF AfterWait, AfterUnlisten
<1>1. CASE HttpDrained \/ CloseQuit
  <2>1. PICK from \in {"draining", "quit"}, to \in {"quit", "unlisten"} :
          MainStep(from, to)
    BY <1>1 DEF HttpDrained, CloseQuit
  <2>2. missed' = missed /\ ln' = ln /\ files' = files /\ logOpen' = logOpen
    BY <1>1 DEF HttpDrained, CloseQuit
  <2>3. /\ LifeTypeOK' /\ Counted'
        /\ UNCHANGED <<Active, Serving, Queued, Querying>>
        /\ Stacked' /\ Unserved' /\ graceful /\ graceful' = graceful
    BY <2>1, <2>2, MainStepKept DEF Stage, LifeInv, LifeTypeOK
  <2>4. stage' \in {"quit", "unlisten"} /\ acceptor' = acceptor /\ late' = late
        /\ stage \in {"draining", "quit"}
    BY <2>1 DEF MainStep, connVars
  <2>5. Waited' /\ OneInHand' /\ Unlistened'
    BY <2>2, <2>3, <2>4 DEF LifeInv, Waited, OneInHand, Unlistened
  <2>6. QED
    BY <2>3, <2>5 DEF LifeInv
<1>2. CASE CloseListener
  <2>1. /\ Counted' /\ UNCHANGED <<Active, Serving, Queued, Querying>>
        /\ Stacked' /\ Unserved' /\ graceful /\ graceful' = graceful
        /\ LifeTypeOK' <=> missed' \in BOOLEAN /\ ln' \in {"nil", "open", "closed"}
    BY <1>2, MainStepKept DEF CloseListener, Stage
  <2>2. LifeTypeOK'
    <3>1. missed' \in BOOLEAN
      BY <1>2 DEF CloseListener
    <3>2. ln' \in {"nil", "open", "closed"}
      BY <1>2 DEF CloseListener, LifeInv, LifeTypeOK
    <3>3. QED
      BY <2>1, <3>1, <3>2
  <2>3. stage = "unlisten" /\ stage' = "wait" /\ acceptor' = acceptor
        /\ late' = late /\ files' = files
    BY <1>2 DEF CloseListener, MainStep, connVars
  <2>4. Waited'
    BY <2>1, <2>3 DEF LifeInv, Waited
  <2>5. late = {}
    BY <2>3 DEF LifeInv, Waited
  <2>6. OneInHand'
    BY <2>1, <2>3, <2>5 DEF LifeInv, OneInHand
  <2>7. Unlistened'
    BY <1>2, <2>3 DEF CloseListener, LifeInv, LifeTypeOK, Unlistened
  <2>8. QED
    BY <2>1, <2>2, <2>4, <2>6, <2>7 DEF LifeInv
<1>3. CASE WaitDone \/ CloseAll \/ CloseChannels
  <2>1. PICK from \in {"wait", "files", "channels"},
             to \in {"files", "channels", "return"} : MainStep(from, to)
    BY <1>3 DEF WaitDone, CloseAll, CloseChannels
  <2>2. missed' = missed /\ ln' = ln /\ (files' = files \/ files' = {})
    BY <1>3 DEF WaitDone, CloseAll, CloseChannels
  <2>3. /\ LifeTypeOK' /\ Counted'
        /\ UNCHANGED <<Active, Serving, Queued, Querying>>
        /\ Stacked' /\ Unserved' /\ graceful /\ graceful' = graceful
    BY <2>1, <2>2, MainStepKept DEF Stage, LifeInv, LifeTypeOK
  <2>4. /\ stage' \in {"files", "channels", "return"} /\ acceptor' = acceptor
        /\ late' = late /\ stage \in {"wait", "files", "channels"}
    BY <2>1 DEF MainStep, connVars
  <2>5. Active \subseteq late
    <3>1. CASE WaitDone
      <4>1. Cardinality(Active) = 0 /\ IsFiniteSet(Active)
        BY <3>1 DEF WaitDone, LifeInv, Counted
      <4>2. QED
        BY <4>1, FS_EmptySet
    <3>2. CASE CloseAll \/ CloseChannels
      BY <2>3, <3>2 DEF CloseAll, CloseChannels, MainStep, LifeInv, Waited
    <3>3. QED
      BY <1>3, <3>1, <3>2
  <2>6. Waited' /\ OneInHand' /\ Unlistened'
    BY <2>2, <2>3, <2>4, <2>5 DEF LifeInv, Waited, OneInHand, Unlistened
  <2>7. QED
    BY <2>3, <2>6 DEF LifeInv
<1>4. CASE Tell \/ Exit
  <2>1. /\ stage = "return" /\ stage' \in {"return", "exited"}
        /\ UNCHANGED <<step, defers, graceful, missed, acceptor, wg, conn, late,
                       up, http, reqs, ln, files>>
    BY <1>4 DEF Tell, Exit, connVars
  <2>2. Counted' /\ UNCHANGED <<Active, Serving, Queued, Querying>>
    BY <2>1, ConnsKept
  <2>3. LifeTypeOK'
    BY <2>1 DEF LifeInv, LifeTypeOK, Stage
  <2>4. Waited' /\ OneInHand' /\ Unlistened' /\ Stacked'
    BY <2>1, <2>2 DEF LifeInv, Waited, OneInHand, Unlistened, Stacked
  <2>5. Unserved'
    BY <2>1, UnservedKept
  <2>6. QED
    BY <2>2, <2>3, <2>4, <2>5 DEF LifeInv
<1>5. CASE Deferred
  <2>1. /\ stage = "return"
        /\ UNCHANGED <<stage, step, graceful, missed, acceptor, wg, conn, late,
                       http, reqs, ln, files>>
    BY <1>5 DEF Deferred, connVars
  <2>2. defers \in Seq(Service) /\ Len(defers) \in Nat \ {0}
    BY <1>5, EmptySeq DEF Deferred, LifeInv, LifeTypeOK
  <2>3. /\ defers' \in Seq(Service) /\ Len(defers') = Len(defers) - 1
        /\ \A i \in 1..Len(defers') : defers'[i] = defers[i]
    <3>1. PICK k \in Nat : k = Len(defers) - 1
      BY <2>2
    <3>2. defers' = SubSeq(defers, 1, k) /\ \A i \in 1..k : defers[i] \in Service
      BY <1>5, <2>2, <3>1 DEF Deferred, Front
    <3>3. /\ defers' \in Seq(Service) /\ Len(defers') = k
          /\ \A i \in 1..k : defers'[i] = defers[1 + i - 1]
      BY <3>2, SubSeqProperties
    <3>4. QED
      BY <3>1, <3>3
  <2>4. PICK r : /\ r = defers[Len(defers)]
                 /\ r \in Awaited => r \notin up
                 /\ r = "pool" => reqs = {} /\ Querying = {}
                 /\ up' = up \ ({r} \intersect {"pool"})
    BY <1>5 DEF Deferred, Last, Querying
  <2>5. Counted' /\ UNCHANGED <<Active, Serving, Queued, Querying>>
    BY <2>1, ConnsKept
  <2>6. Stacked'
    <3>1. CASE Len(defers) = 1
      <4>1. /\ r = "pool" /\ up' = up \ {"pool"} /\ reqs = {}
            /\ Querying' = {} /\ Len(defers') = 0
        <5>1. r = "pool"
          BY <2>4, <3>1 DEF LifeInv, Stacked
        <5>2. reqs = {} /\ Querying' = {} /\ {r} \intersect {"pool"} = {"pool"}
          BY <2>4, <2>5, <5>1
        <5>3. Len(defers') = 0
          BY <2>3, <3>1
        <5>4. QED
          BY <2>4, <5>1, <5>2, <5>3, Zenon
      <4>2. QED
        BY <2>1, <3>1, <4>1 DEF LifeInv, Stacked
    <3>2. CASE Len(defers) = 2
      <4>1. /\ r = "measurements" /\ up' = up /\ "measurements" \notin up
            /\ Len(defers') = 1 /\ defers'[1] = defers[1]
        BY <2>3, <2>4, <3>2 DEF LifeInv, Stacked, Awaited
      <4>2. QED
        BY <2>1, <2>5, <3>2, <4>1 DEF LifeInv, Stacked
    <3>3. CASE Len(defers) >= 3
      <4>1. r # "pool" /\ up' = up /\ Len(defers') >= 2
        BY <2>2, <2>3, <2>4, <3>3 DEF LifeInv, Stacked
      <4>2. QED
        BY <2>1, <2>2, <2>3, <2>5, <3>3, <4>1 DEF LifeInv, Stacked
    <3>4. Len(defers) = 1 \/ Len(defers) = 2 \/ Len(defers) >= 3
      <4>1. \A n \in Nat \ {0} : n = 1 \/ n = 2 \/ n >= 3
        OBVIOUS
      <4>2. QED
        BY <2>2, <4>1
    <3>5. QED
      BY <3>1, <3>2, <3>3, <3>4
  <2>7. LifeTypeOK'
    BY <2>1, <2>3 DEF LifeInv, LifeTypeOK
  <2>8. Waited' /\ OneInHand' /\ Unserved' /\ Unlistened'
    BY <2>1, <2>5, UnservedKept DEF LifeInv, Waited, OneInHand, Unlistened
  <2>9. QED
    BY <2>6, <2>5, <2>7, <2>8 DEF LifeInv
<1>6. QED
  BY <1>1, <1>2, <1>3, <1>4, <1>5 DEF Shutdown

----------------------------------------------------------------------------
(* ListenAndServe, the connections, the HTTP server and the goroutines.    *)

\* A connection that starts to be counted, or stops.
LEMMA CountedMore ==
  ASSUME LifeInv, NEW c \in Conn, c \notin Active, Active' = Active \union {c},
         wg' = wg + 1
  PROVE  Counted'
  BY FS_AddElement DEF LifeInv, Counted

LEMMA CountedLess ==
  ASSUME LifeInv, NEW c \in Conn, c \in Active, Active' = Active \ {c},
         wg' = wg - 1
  PROVE  Counted'
  BY FS_RemoveElement DEF LifeInv, Counted

LEMMA AcceptorStep ==
  ASSUME LifeInv, Listen \/ AcceptorEnds \/ \E c \in Conn : Accept(c) \/ Count(c),
         Running
  PROVE  LifeInv'
<1> USE DEF AfterWait, AfterUnlisten
<1>0. UNCHANGED <<stage, step, defers, graceful, missed, up, http, reqs, files>>
  BY DEF Listen, AcceptorEnds, Accept, Count, mainVars
<1>1. Stacked'
  <2>1. Querying' \subseteq Querying
    BY DEF Listen, AcceptorEnds, Accept, Count, LifeInv, LifeTypeOK, Querying
  <2>2. QED
    BY <1>0, <2>1, StackKept
<1>2. CASE Listen \/ AcceptorEnds
  <2>1. Counted' /\ UNCHANGED <<Active, Serving, Queued, Querying>>
    BY <1>2, ConnsKept DEF Listen, AcceptorEnds
  <2>2. LifeTypeOK'
    BY <1>0, <1>2 DEF Listen, AcceptorEnds, LifeInv, LifeTypeOK
  <2>3. Waited' /\ OneInHand' /\ Unserved' /\ Unlistened'
    BY <1>0, <1>2, <2>1 DEF Listen, AcceptorEnds, LifeInv, Waited, OneInHand,
                            Unserved, Unlistened
  <2>4. QED
    BY <1>1, <2>1, <2>2, <2>3 DEF LifeInv
<1>3. ASSUME NEW c \in Conn, Accept(c)
      PROVE  LifeInv'
  <2>1. \A d \in Conn : conn'[d] = IF d = c THEN "queued" ELSE conn[d]
    BY <1>3 DEF Accept, LifeInv, LifeTypeOK
  <2>2. /\ Active' = Active /\ Queued' = Queued \union {c}
        /\ Serving' = Serving /\ c \notin Active
    BY <1>3, <2>1 DEF Accept, Active, Queued, Serving
  <2>3. Counted'
    BY <1>3, <2>2 DEF Accept, LifeInv, Counted
  <2>4. LifeTypeOK'
    BY <1>0, <1>3 DEF Accept, LifeInv, LifeTypeOK
  <2>5. Waited'
    BY <1>0, <1>3, <2>2 DEF Accept, LifeInv, Waited
  <2>6. Queued = {} /\ (~missed => late = {})
    BY <1>3 DEF Accept, LifeInv, OneInHand, Unlistened, Waited
  <2>7. OneInHand'
    BY <1>0, <1>3, <2>2, <2>6 DEF Accept, OneInHand
  <2>8. Unserved' /\ Unlistened'
    BY <1>0, <1>3 DEF Accept, LifeInv, Unserved, Unlistened
  <2>9. QED
    BY <1>1, <2>3, <2>4, <2>5, <2>7, <2>8 DEF LifeInv
<1>4. ASSUME NEW c \in Conn, Count(c)
      PROVE  LifeInv'
  <2>1. \A d \in Conn : conn'[d] = IF d = c THEN "spawned" ELSE conn[d]
    BY <1>4 DEF Count, LifeInv, LifeTypeOK
  <2>2. /\ Active' = Active \union {c} /\ Queued' = Queued \ {c}
        /\ Serving' = Serving /\ c \notin Active /\ c \in Queued
    BY <1>4, <2>1 DEF Count, Active, Queued, Serving
  <2>3. Counted'
    BY <1>4, <2>2, CountedMore DEF Count
  <2>4. late' \subseteq late \union {c} /\ late \subseteq late'
        /\ (c \in late' \/ late' = late)
    BY <1>4 DEF Count
  <2>5. LifeTypeOK'
    BY <1>0, <1>4, <2>4 DEF Count, LifeInv, LifeTypeOK
  <2>6. graceful /\ stage \in AfterWait => c \in late'
    BY <1>4 DEF Count, Running
  <2>7. late' # {} => graceful /\ stage \in AfterWait
    BY <1>4 DEF Count, LifeInv, Waited
  <2>8. Waited'
    BY <1>0, <2>2, <2>4, <2>6, <2>7 DEF LifeInv, Waited
  <2>9. OneInHand'
    BY <1>0, <1>4, <2>2, <2>4 DEF Count, LifeInv, OneInHand
  <2>10. Unserved' /\ Unlistened'
    BY <1>0, <1>4 DEF Count, LifeInv, Unserved, Unlistened
  <2>11. QED
    BY <1>1, <2>3, <2>5, <2>8, <2>9, <2>10 DEF LifeInv
<1>5. QED
  BY <1>2, <1>3, <1>4

LEMMA ConnectionStep ==
  ASSUME LifeInv, NEW c \in Conn, Connection(c) \/ Handling(c) \/ Quiet(c)
  PROVE  LifeInv'
<1> USE DEF MovesTo
<1>0. UNCHANGED <<stage, step, defers, graceful, missed, up, http, reqs, late,
                  acceptor, ln>>
  BY DEF Connection, Start, ReadError, CloseLogs, Done, Handling, Frame, Query,
         QueryEnds, OpenLogs, Answered, Quiet, mainVars, connVars
<1>1. Stacked' /\ Unserved' /\ Unlistened'
  <2>1. \A d \in Conn : conn[d] = "none" => conn'[d] = "none"
    BY DEF Connection, Start, ReadError, CloseLogs, Done, Handling, Frame, Query,
           QueryEnds, OpenLogs, Answered, Quiet, LogsTo, connVars, LifeInv,
           LifeTypeOK
  <2>2. Unserved' /\ Unlistened'
    BY <1>0, <2>1, UnservedKept DEF LifeInv, Unlistened
  <2>3. CASE Query(c)
    <3>1. Len(defers) >= 1
      BY <2>3 DEF Query, LifeInv, Stacked
    <3>2. QED
      BY <1>0, <2>2, <3>1 DEF LifeInv, Stacked
  <2>4. CASE ~Query(c)
    <3>1. Querying' \subseteq Querying
      BY <2>4 DEF Connection, Start, ReadError, CloseLogs, Done, Handling, Frame,
                  QueryEnds, OpenLogs, Answered, Quiet, LogsTo, connVars,
                  LifeInv, LifeTypeOK, Querying
    <3>2. QED
      BY <1>0, <2>2, <3>1, StackKept
  <2>5. QED
    BY <2>3, <2>4
<1>2. ASSUME NEW to \in {"running", "handling", "querying", "closing", "closed"},
             conn' = [conn EXCEPT ![c] = to] \/ conn' = conn, c \in Active,
             wg' = wg, files' \subseteq files \union {c},
             c \in files' => c \in Serving /\ to # "closed"
      PROVE  LifeInv'
  <2>1. Active' = Active /\ Queued' = Queued
    BY <1>2 DEF Active, Serving, Queued, LifeInv, LifeTypeOK
  <2>2. LifeTypeOK'
    BY <1>0, <1>2 DEF LifeInv, LifeTypeOK
  <2>3. Counted' /\ OneInHand'
    BY <1>0, <1>2, <2>1 DEF LifeInv, Counted, OneInHand
  <2>4. files' \subseteq Serving'
    BY <1>2 DEF LifeInv, LifeTypeOK, Waited, Serving
  <2>5. Waited'
    BY <1>0, <2>1, <2>4 DEF LifeInv, Waited
  <2>6. QED
    BY <1>1, <2>2, <2>3, <2>5 DEF LifeInv
<1>3. CASE Start(c)
  BY <1>2, <1>3 DEF Start, LogsTo, Active, LifeInv, Waited, Serving
<1>4. CASE ReadError(c)
  BY <1>2, <1>4 DEF ReadError, LogsTo, Active, LifeInv, Waited, Serving
<1>5. CASE Frame(c) \/ Query(c) \/ QueryEnds(c)
  <2>1. PICK to \in {"handling", "querying"} :
          conn' = [conn EXCEPT ![c] = to] \/ conn' = conn
    BY <1>5 DEF Frame, Query, QueryEnds, LogsTo
  <2>2. wg' = wg /\ files' = files /\ c \in Active /\ c \in Serving
    BY <1>5 DEF Frame, Query, QueryEnds, Active, Serving
  <2>3. QED
    BY <1>2, <2>1, <2>2
<1>6. CASE CloseLogs(c)
  BY <1>2, <1>6 DEF CloseLogs, Active, Serving
<1>7. CASE OpenLogs(c)
  BY <1>2, <1>7 DEF OpenLogs, connVars, Active, Serving
<1>8. CASE Answered(c)
  <2>1. PICK to \in {"running", "closing"} :
          conn' = [conn EXCEPT ![c] = to] \/ conn' = conn
    BY <1>8 DEF Answered, LogsTo
  <2>2. wg' = wg /\ files' = files /\ c \in Active /\ c \in Serving
    BY <1>8 DEF Answered, Active, Serving
  <2>3. QED
    BY <1>2, <2>1, <2>2
<1>9. CASE Quiet(c)
  <2>1. UNCHANGED <<wg, conn, files>>
    BY <1>9 DEF Quiet
  <2>2. Counted' /\ UNCHANGED <<Active, Serving, Queued, Querying>>
    BY <2>1, ConnsKept
  <2>3. LifeTypeOK'
    BY <1>0, <2>1 DEF LifeInv, LifeTypeOK
  <2>4. Waited' /\ OneInHand'
    BY <1>0, <2>1, <2>2 DEF LifeInv, Waited, OneInHand
  <2>5. QED
    BY <1>1, <2>2, <2>3, <2>4 DEF LifeInv
<1>10. CASE Done(c)
  <2>1. \A d \in Conn : conn'[d] = IF d = c THEN "done" ELSE conn[d]
    BY <1>10 DEF Done, LifeInv, LifeTypeOK
  <2>2. Active' = Active \ {c} /\ Queued' = Queued /\ c \in Active
    BY <1>10, <2>1 DEF Done, Active, Serving, Queued
  <2>3. Counted'
    BY <1>10, <2>2, CountedLess DEF Done
  <2>4. LifeTypeOK'
    BY <1>0, <1>10 DEF Done, LifeInv, LifeTypeOK
  <2>5. c \notin files
    BY <1>10 DEF Done, LifeInv, Waited, Serving
  <2>6. Waited' /\ OneInHand'
    BY <1>0, <1>10, <2>1, <2>2, <2>5 DEF Done, LifeInv, Waited, OneInHand, Serving
  <2>7. QED
    BY <1>1, <2>3, <2>4, <2>6 DEF LifeInv
<1>11. QED
  BY <1>3, <1>4, <1>5, <1>6, <1>7, <1>8, <1>9, <1>10 DEF Connection, Handling

LEMMA LifeStep == LifeInv /\ [Next]_vars => LifeInv'
<1> SUFFICES ASSUME LifeInv, [Next]_vars PROVE LifeInv'
  OBVIOUS
<1>1. ASSUME UNCHANGED <<step, defers, graceful, missed, acceptor, wg, conn,
                         late, ln, files>>, UNCHANGED stage, Stacked'
      PROVE  LifeInv'
  <2>1. Counted' /\ UNCHANGED <<Active, Serving, Queued, Querying>>
    BY <1>1, ConnsKept
  <2>2. LifeTypeOK'
    BY <1>1 DEF LifeInv, LifeTypeOK
  <2>3. Waited' /\ OneInHand' /\ Unserved' /\ Unlistened'
    BY <1>1, <2>1, UnservedKept DEF LifeInv, Waited, OneInHand, Unlistened
  <2>4. QED
    BY <1>1, <2>1, <2>2, <2>3 DEF LifeInv
<1>2. CASE BootFails \/ Select
  <2>1. /\ UNCHANGED <<step, defers, missed, acceptor, wg, conn, late, up, reqs,
                       ln, files>>
        /\ \/ stage = "boot" /\ stage' = "return" /\ UNCHANGED <<graceful, http>>
           \/ /\ stage = "select" /\ stage' = "draining" /\ graceful' = TRUE
              /\ http' = "shut"
    BY <1>2 DEF BootFails, Select, connVars
  <2>2. Counted' /\ UNCHANGED <<Active, Serving, Queued, Querying>>
    BY <2>1, ConnsKept
  <2>3. ~graceful /\ late = {}
    BY <2>1 DEF LifeInv, LifeTypeOK, Waited
  <2>4. LifeTypeOK' /\ (graceful' => stage' = "draining")
    <3>1. graceful' \in BOOLEAN /\ stage' \in {"return", "draining"}
          /\ (graceful' <=> stage' = "draining")
      <4>1. CASE stage' = "return" /\ graceful' = graceful
        BY <2>3, <4>1 DEF LifeInv, LifeTypeOK
      <4>2. CASE stage' = "draining" /\ graceful' = TRUE
        BY <4>2
      <4>3. QED
        BY <2>1, <4>1, <4>2
    <3>2. QED
      BY <2>1, <3>1 DEF LifeInv, LifeTypeOK, Stage, AfterUnlisten, AfterWait
  <2>5. Waited' /\ OneInHand' /\ Unlistened'
    BY <2>1, <2>2, <2>3, <2>4
    DEF LifeInv, Waited, OneInHand, Unlistened, AfterUnlisten, AfterWait
  <2>6. Stacked'
    BY <2>1, <2>2 DEF LifeInv, Stacked
  <2>7. stage' = "return" => step \in {1, 2, 3, 5, 10}
    <3>1. CASE BootFails
      <4>1. step \in 1..11 /\ Steps[step] \in Fallible
        BY <3>1, Started DEF BootFails, LifeInv, LifeTypeOK, Stacked
      <4>2. /\ Steps[4] = "measurements" /\ Steps[6] = "clock" /\ Steps[7] = "hub"
            /\ Steps[8] = "health" /\ Steps[9] = "crypto" /\ Steps[11] = "http"
        BY DEF Steps
      <4>3. step \notin {4, 6, 7, 8, 9, 11}
        BY <4>1, <4>2 DEF Fallible
      <4>4. QED
        BY <4>1, <4>3
    <3>2. QED
      BY <1>2, <3>1 DEF Select
  <2>8. Unserved'
    BY <2>1, <2>4, <2>7 DEF LifeInv, Unserved
  <2>9. QED
    BY <2>2, <2>4, <2>5, <2>6, <2>8 DEF LifeInv
<1>3. ASSUME NEW g \in up, Stops(g)
      PROVE  LifeInv'
  <2>1. g # "pool" /\ up' = up \ {g}
    BY <1>3 DEF Stops
  <2>2. Stacked'
    BY <1>3, <2>1, ConnsKept DEF Stops, mainVars, connVars, LifeInv, Stacked
  <2>3. QED
    BY <1>1, <1>3, <2>2 DEF Stops, mainVars, connVars
<1>4. ASSUME NEW r \in Request, RequestBegin(r) \/ RequestEnd(r)
      PROVE  LifeInv'
  <2>1. reqs' # {} \/ Querying # {} => Len(defers) >= 1
    <3>1. CASE RequestBegin(r)
      <4>1. Len(defers) >= 2
        BY <3>1 DEF RequestBegin, LifeInv, Stacked
      <4>2. QED
        BY <4>1 DEF LifeInv, LifeTypeOK
    <3>2. CASE RequestEnd(r)
      BY <3>2 DEF RequestEnd, LifeInv, Stacked
    <3>3. QED
      BY <1>4, <3>1, <3>2
  <2>2. Stacked'
    BY <1>4, <2>1, ConnsKept
    DEF RequestBegin, RequestEnd, mainVars, connVars, LifeInv, Stacked
  <2>3. QED
    BY <1>1, <1>4, <2>2 DEF RequestBegin, RequestEnd, mainVars, connVars
<1>5. CASE UNCHANGED vars
  <2>1. Stacked'
    BY <1>5, ConnsKept, StackKept DEF vars, mainVars, connVars
  <2>2. QED
    BY <1>1, <1>5, <2>1 DEF vars, mainVars, connVars
<1>6. CASE Next
  <2>1. Running
    BY <1>6 DEF Next
  <2>2. CASE Boot \/ Shutdown
    BY <2>2, BootStep, ShutdownStep
  <2>3. CASE Listen \/ AcceptorEnds \/ \E c \in Conn : Accept(c) \/ Count(c)
    BY <2>1, <2>3, AcceptorStep
  <2>4. ASSUME NEW c \in Conn, Connection(c) \/ Handling(c) \/ Quiet(c)
        PROVE  LifeInv'
    BY <2>4, ConnectionStep
  <2>5. QED
    BY <1>2, <1>3, <1>4, <1>6, <2>2, <2>3, <2>4 DEF Next
<1>7. QED
  BY <1>5, <1>6

\* The inductive invariant of start and shutdown.
THEOREM LifeInvariant == Spec => []LifeInv
  BY LifeInit, LifeStep, PTL DEF Spec

\* When the graceful shutdown takes the server apart, no connection that was
\* counted in time runs or has a file open.  When a failed start does so,
\* there is no connection at all, unless it was web.NewServer that failed.
\* In either case no statement, of a request or of a connection, and no
\* goroutine of the measurement store is left when the pool is closed.
THEOREM TeardownSafe == Spec => []OrderlyTeardown
<1>1. LifeInv => OrderlyTeardown
  <2> SUFFICES ASSUME LifeInv PROVE OrderlyTeardown
    OBVIOUS
  <2>1. ASSUME graceful, stage \in {"files", "channels", "return", "exited"},
               NEW c \in Conn \ late
        PROVE  conn[c] \in {"none", "queued", "done"} /\ c \notin files
    <3>1. c \notin Active
      BY <2>1 DEF LifeInv, Waited, AfterWait
    <3>2. conn[c] \notin {"spawned", "running", "handling", "querying",
                          "closing", "closed"}
      BY <3>1 DEF Active, Serving
    <3>3. QED
      BY <3>2 DEF LifeInv, LifeTypeOK, Waited, Serving
  <2>2. ASSUME "pool" \notin up
        PROVE  /\ "measurements" \notin up /\ reqs = {}
               /\ \A c \in Conn : conn[c] # "querying"
    <3>1. ~(Len(defers) >= 1) /\ Len(defers) \in Nat
      BY <2>2 DEF LifeInv, LifeTypeOK, Stacked
    <3>2. ~(Len(defers) >= 2)
      BY <3>1
    <3>3. QED
      BY <3>1, <3>2 DEF LifeInv, Stacked, Querying
  <2>3. ASSUME ~graceful, stage \in {"return", "exited"}, Steps[step] # "web"
        PROVE  \A c \in Conn : conn[c] = "none"
    <3>1. Steps[10] = "web"
      BY DEF Steps
    <3>2. step \in {1, 2, 3, 5}
      BY <2>3, <3>1 DEF LifeInv, Unserved
    <3>3. acceptor = "off"
      BY <3>2 DEF LifeInv, Unserved
    <3>4. QED
      BY <3>3 DEF LifeInv, Unserved
  <2>4. QED
    BY <2>1, <2>2, <2>3 DEF OrderlyTeardown
<1>2. QED
  BY <1>1, LifeInvariant, PTL

\* Unless Shutdown came before the listener existed, at most one connection
\* is counted after wg.Wait returned.
THEOREM OneLate == Spec => []AtMostOneLate
<1>1. LifeInv => AtMostOneLate
  <2> SUFFICES ASSUME LifeInv, ~missed PROVE Cardinality(late) <= 1
    BY DEF AtMostOneLate
  <2>1. \A c, d \in late : c = d
    BY DEF LifeInv, OneInHand
  <2>2. CASE late = {}
    BY <2>2, FS_EmptySet
  <2>3. CASE late # {}
    <3>1. PICK c \in late : late = {c}
      BY <2>1, <2>3
    <3>2. QED
      BY <3>1, FS_Singleton
  <2>4. QED
    BY <2>2, <2>3
<1>2. QED
  BY <1>1, LifeInvariant, PTL
=============================================================================
