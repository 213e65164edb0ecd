----------------------------- MODULE DriverProofs -----------------------------
(* Theorems about Driver for every device, every capability list and every *)
(* number of refused calls and accesses, checked by TLAPS.                 *)
EXTENDS Driver, SequenceTheorems, TLAPS

-----------------------------------------------------------------------------
(* Scripts: sequences of kernel calls.                                     *)

LEMMA ToSetTail ==
  ASSUME NEW S, NEW s \in Seq(S), s # <<>>
  PROVE  /\ Head(s) \in S /\ Tail(s) \in Seq(S) /\ Head(s) \in ToSet(s)
         /\ ToSet(s) = {Head(s)} \cup ToSet(Tail(s))
         /\ \A k \in 1..Len(Tail(s)) : k + 1 \in 1..Len(s) /\ Tail(s)[k] = s[k + 1]
         /\ Head(s) = s[1] /\ 1 \in 1..Len(s)
         /\ ToSet(s) \subseteq S
<1>1. /\ Head(s) \in S /\ Tail(s) \in Seq(S)
      /\ Len(Tail(s)) = Len(s) - 1 /\ Len(s) \in Nat \ {0}
      /\ \A k \in 1..Len(Tail(s)) : Tail(s)[k] = s[k + 1]
  BY HeadTailProperties, EmptySeq
<1>2. DOMAIN s = 1..Len(s) /\ DOMAIN Tail(s) = 1..Len(Tail(s))
  BY <1>1, LenProperties
<1>3. Head(s) = s[1] /\ 1 \in 1..Len(s) /\ Head(s) \in ToSet(s)
  BY <1>1, <1>2 DEF ToSet
<1>4. \A k \in 1..Len(Tail(s)) : k + 1 \in 1..Len(s)
  BY <1>1
<1>5. ASSUME NEW k \in 1..Len(s), k # 1 PROVE k - 1 \in 1..Len(Tail(s)) /\ Tail(s)[k - 1] = s[k]
  BY <1>1, <1>5
<1>6. ToSet(s) \subseteq {Head(s)} \cup ToSet(Tail(s))
  <2> SUFFICES ASSUME NEW k \in 1..Len(s), k # 1 PROVE s[k] \in ToSet(Tail(s))
    BY <1>2, <1>3 DEF ToSet
  <2>1. k - 1 \in DOMAIN Tail(s) /\ Tail(s)[k - 1] = s[k]
    BY <1>2, <1>5
  <2> QED
    BY <2>1 DEF ToSet
<1>7. ToSet(Tail(s)) \subseteq ToSet(s)
  <2> SUFFICES ASSUME NEW k \in 1..Len(Tail(s)) PROVE Tail(s)[k] \in ToSet(s)
    BY <1>2 DEF ToSet
  <2>1. k + 1 \in DOMAIN s /\ Tail(s)[k] = s[k + 1]
    BY <1>1, <1>2, <1>4
  <2> QED
    BY <2>1 DEF ToSet
<1>8. ToSet(s) \subseteq S
  BY <1>2, ElementOfSeq DEF ToSet
<1> QED
  BY <1>1, <1>3, <1>4, <1>6, <1>7, <1>8

\* What a call needs, the loop over the regions included.
Wants(call) == IF call = "regions" THEN {"info"} ELSE Needs(call)

\* Nothing that a call needs is asked for in its turn or later, and the loop
\* is made once.
InOrder(s) ==
  \A j, k \in 1..Len(s) :
    j <= k => /\ s[k] \notin Wants(s[j])
              /\ s[j] = "regions" /\ s[k] = "regions" => j = k

LEMMA InOrderTail ==
  ASSUME NEW S, NEW s \in Seq(S), s # <<>>, InOrder(s)
  PROVE  /\ InOrder(Tail(s))
         /\ \A c \in Wants(Head(s)) : c \notin ToSet(s)
         /\ Head(s) = "regions" => "regions" \notin ToSet(Tail(s))
<1>1. DOMAIN s = 1..Len(s) /\ DOMAIN Tail(s) = 1..Len(Tail(s)) /\ Len(s) \in Nat
  BY ToSetTail, LenProperties
<1>2. InOrder(Tail(s))
  BY <1>1, ToSetTail DEF InOrder
<1>3. \A c \in Wants(Head(s)) : c \notin ToSet(s)
  BY <1>1, ToSetTail DEF InOrder, ToSet
<1>4. Head(s) = "regions" => "regions" \notin ToSet(Tail(s))
  BY <1>1, ToSetTail DEF InOrder, ToSet
<1> QED
  BY <1>2, <1>3, <1>4

\* What is used of the programs' scripts.
Sound(s) ==
  /\ s \in Seq(ToSet(s)) /\ InOrder(s)
  /\ \A c \in ToSet(s) : Wants(c) \subseteq ToSet(s)
  /\ "device" \in ToSet(s)
  /\ \A j \in 1..Len(s) : s[j] = "write" => \E k \in 1..j - 1 : s[k] = "read"

LEMMA EmptyCalls == ToSet(<<>>) = {}
<1>1. <<>> \in Seq({}) /\ Len(<<>>) = 0
  BY EmptySeq
<1>2. DOMAIN <<>> = 1..0
  BY <1>1, LenProperties
<1> QED
  BY <1>2 DEF ToSet

LEMMA ScriptsSound ==
  /\ \A p \in Programs : Sound(Script[p])
  /\ "write" \in ToSet(Script["write"]) /\ "regions" \in ToSet(Script["sof"])
<1>1. Sound(vfio_setup) /\ "regions" \in ToSet(vfio_setup)
  <2> USE DEF vfio_setup, Opening
  <2>1. Len(vfio_setup) = 9 /\ DOMAIN vfio_setup = 1..9
    OBVIOUS
  <2>2. vfio_setup \in Seq(ToSet(vfio_setup))
    BY <2>1 DEF ToSet
  <2>3. InOrder(vfio_setup)
    BY <2>1 DEF InOrder, Wants, Needs
  <2>4. ToSet(vfio_setup) =
       {"container", "group", "status", "attach", "iommu", "iommu_info",
        "device", "info", "regions"}
    BY <2>1 DEF ToSet
  <2>5. \A c \in ToSet(vfio_setup) : Wants(c) \subseteq ToSet(vfio_setup)
    BY <2>4 DEF Wants, Needs
  <2> QED
    BY <2>1, <2>2, <2>3, <2>4, <2>5 DEF Sound
<1>2. Sound(vfio_boot)
  <2> USE DEF vfio_boot, Opening, load_fw_for_dma
  <2>1. Len(vfio_boot) = 13 /\ DOMAIN vfio_boot = 1..13
    OBVIOUS
  <2>2. vfio_boot \in Seq(ToSet(vfio_boot))
    BY <2>1 DEF ToSet
  <2>3. InOrder(vfio_boot)
    BY <2>1 DEF InOrder, Wants, Needs
  <2>4. ToSet(vfio_boot) =
       {"container", "group", "status", "attach", "iommu", "iommu_info",
        "device", "info", "regions", "open", "fstat", "map_image",
        "read_image"}
    BY <2>1 DEF ToSet
  <2>5. \A c \in ToSet(vfio_boot) : Wants(c) \subseteq ToSet(vfio_boot)
    BY <2>4 DEF Wants, Needs
  <2> QED
    BY <2>1, <2>2, <2>3, <2>4, <2>5 DEF Sound
<1>3. Sound(vfio_api)
  <2> USE DEF vfio_api, Opening
  <2>1. Len(vfio_api) = 12 /\ DOMAIN vfio_api = 1..12
    OBVIOUS
  <2>2. vfio_api \in Seq(ToSet(vfio_api))
    BY <2>1 DEF ToSet
  <2>3. InOrder(vfio_api)
    BY <2>1 DEF InOrder, Wants, Needs
  <2>4. ToSet(vfio_api) =
       {"container", "group", "status", "attach", "iommu", "iommu_info",
        "map", "device", "info", "regions", "config", "irqs"}
    BY <2>1 DEF ToSet
  <2>5. \A c \in ToSet(vfio_api) : Wants(c) \subseteq ToSet(vfio_api)
    BY <2>4 DEF Wants, Needs
  <2> QED
    BY <2>1, <2>2, <2>3, <2>4, <2>5 DEF Sound
<1>4. Sound(vfio_irq)
  <2> USE DEF vfio_irq, Opening
  <2>1. Len(vfio_irq) = 10 /\ DOMAIN vfio_irq = 1..10
    OBVIOUS
  <2>2. vfio_irq \in Seq(ToSet(vfio_irq))
    BY <2>1 DEF ToSet
  <2>3. InOrder(vfio_irq)
    BY <2>1 DEF InOrder, Wants, Needs
  <2>4. ToSet(vfio_irq) =
       {"container", "group", "status", "attach", "iommu", "iommu_info",
        "map", "device", "info", "irqs"}
    BY <2>1 DEF ToSet
  <2>5. \A c \in ToSet(vfio_irq) : Wants(c) \subseteq ToSet(vfio_irq)
    BY <2>4 DEF Wants, Needs
  <2> QED
    BY <2>1, <2>2, <2>3, <2>4, <2>5 DEF Sound
<1>5. Sound(vfio_write) /\ "write" \in ToSet(vfio_write)
  <2> USE DEF vfio_write, Opening
  <2>1. Len(vfio_write) = 15 /\ DOMAIN vfio_write = 1..15
    OBVIOUS
  <2>2. vfio_write \in Seq(ToSet(vfio_write))
    BY <2>1 DEF ToSet
  <2>3. InOrder(vfio_write)
    BY <2>1 DEF InOrder, Wants, Needs
  <2>4. ToSet(vfio_write) =
       {"container", "group", "status", "attach", "iommu", "iommu_info",
        "map", "device", "info", "regions", "config", "read", "write",
        "irqs"}
    BY <2>1 DEF ToSet
  <2>5. \A c \in ToSet(vfio_write) : Wants(c) \subseteq ToSet(vfio_write)
    BY <2>4 DEF Wants, Needs
  <2> QED
    BY <2>1, <2>2, <2>3, <2>4, <2>5 DEF Sound
<1> QED
  BY <1>1, <1>2, <1>3, <1>4, <1>5 DEF Programs, Script

-----------------------------------------------------------------------------
(* The session.                                                            *)

\* Types, and what is left to be asked for.
CallsInv ==
  /\ prog \in Programs /\ calls \in Seq(ToSet(Script[prog])) /\ InOrder(calls)
  /\ i \in 0..9 /\ ("regions" \in ToSet(calls) => i <= 8)
  /\ have \subseteq ToSet(Script[prog]) \cup {"msi"}
  /\ known \subseteq Regions /\ (\A r \in known : r < i)
  /\ faults \in 0..MaxFaults

\* As long as nothing is refused, what is no longer asked for is granted.
GrantedInv ==
  faults = 0 =>
    /\ \A c \in ToSet(Script[prog]) \ {"regions"} : c \in ToSet(calls) \/ c \in have
    /\ \A r \in Regions : r < i => r \in known
    /\ "regions" \in ToSet(Script[prog]) \ ToSet(calls) => i = 9

\* The loop over the regions is nothing a call needs, nor is the interrupt.
LEMMA RegionsNotNeeded == \A c : "regions" \notin Needs(c) /\ "msi" \notin Needs(c)
  BY DEF Needs

LEMMA InitCalls == SessionInit => CallsInv /\ GrantedInv
<1> SUFFICES ASSUME SessionInit PROVE CallsInv /\ GrantedInv
  OBVIOUS
<1> USE DEF SessionInit
<1>1. Sound(Script[prog])
  BY ScriptsSound
<1>2. CallsInv
  BY <1>1, MaxFaultsAssumption DEF CallsInv, Sound
<1>3. GrantedInv
  BY <1>1 DEF GrantedInv, Regions
<1> QED
  BY <1>2, <1>3

\* A call that finds something missing does so after a refusal.
LEMMA RefusalCounts ==
  ASSUME CallsInv, GrantedInv
  PROVE  /\ \A call : Refused(call) => faults' \in 1..MaxFaults
         /\ NoRegions => faults # 0
<1>1. Sound(Script[prog])
  BY ScriptsSound DEF CallsInv
<1>2. ASSUME calls # <<>>
      PROVE  /\ Head(calls) \in ToSet(Script[prog])
             /\ \A c \in Wants(Head(calls)) : c \notin ToSet(calls)
  BY <1>2, ToSetTail, InOrderTail DEF CallsInv
<1>3. ASSUME NEW call, Refused(call), ~(Needs(call) \subseteq have) PROVE faults # 0
  <2>1. calls # <<>> /\ call = Head(calls) /\ call # "regions"
    BY <1>3 DEF Refused, Call
  <2>2. PICK c \in Needs(call) : c \notin have
    BY <1>3
  <2>3. c \in ToSet(Script[prog]) /\ c \notin ToSet(calls) /\ c # "regions"
    BY <1>1, <1>2, <2>1, RegionsNotNeeded DEF Sound, Wants
  <2> QED
    BY <2>2, <2>3 DEF GrantedInv
<1>4. ASSUME NEW call, Refused(call) PROVE faults' \in 1..MaxFaults
  BY <1>3, <1>4, MaxFaultsAssumption DEF Refused, Fault, CallsInv
<1>5. NoRegions => faults # 0
  BY <1>1, <1>2 DEF NoRegions, Sound, Wants, GrantedInv
<1> QED
  BY <1>4, <1>5

LEMMA NextCalls == CallsInv /\ GrantedInv /\ SessionNext => (CallsInv /\ GrantedInv)'
<1> SUFFICES ASSUME CallsInv, GrantedInv, SessionNext PROVE (CallsInv /\ GrantedInv)'
  OBVIOUS
<1>1. Sound(Script[prog])
  BY ScriptsSound DEF CallsInv
<1>2. ASSUME calls # <<>>
      PROVE  /\ Tail(calls) \in Seq(ToSet(Script[prog])) /\ InOrder(Tail(calls))
             /\ ToSet(calls) = {Head(calls)} \cup ToSet(Tail(calls))
             /\ Head(calls) \in ToSet(Script[prog])
             /\ \A c \in Wants(Head(calls)) : c \notin ToSet(calls)
             /\ Head(calls) = "regions" => "regions" \notin ToSet(Tail(calls))
  BY <1>2, ToSetTail, InOrderTail DEF CallsInv
<1>3. ASSUME NEW call, Granted(call) PROVE (CallsInv /\ GrantedInv)'
  BY <1>2, <1>3 DEF Granted, Call, CallsInv, GrantedInv
<1>4. ASSUME NEW call, Refused(call) PROVE (CallsInv /\ GrantedInv)'
  <2>1. calls # <<>> /\ call = Head(calls) /\ call # "regions" /\ calls' = Tail(calls)
        /\ prog' = prog /\ i' = i /\ known' = known /\ have' = have
    BY <1>4 DEF Refused, Call
  <2> QED
    BY <1>2, <1>4, <2>1, RefusalCounts DEF CallsInv, GrantedInv
<1>5. ASSUME NEW answered \in BOOLEAN, Region(answered) PROVE (CallsInv /\ GrantedInv)'
  <2>1. /\ calls # <<>> /\ Head(calls) = "regions" /\ prog' = prog /\ have' = have
        /\ i' = i + 1 /\ calls' = IF i + 1 \in Regions THEN calls ELSE Tail(calls)
        /\ known' = IF answered THEN known \cup {i} ELSE known
    BY <1>5 DEF Region
  <2>2. i \in Regions
    BY <1>2, <2>1 DEF CallsInv, Regions
  <2>3. i' \in 0..9 /\ i \in 0..8 /\ known' \subseteq Regions /\ \A r \in known' : r < i'
    <3>1. i \in 0..8 /\ i' = i + 1
      BY <2>1, <2>2 DEF Regions
    <3>2. known' \subseteq known \cup {i}
      BY <2>1
    <3>3. \A r \in known \cup {i} : r \in 0..8 /\ r < i + 1
      BY <3>1 DEF CallsInv, Regions
    <3> QED
      BY <3>1, <3>2, <3>3 DEF Regions
  <2>4. /\ calls' \in Seq(ToSet(Script[prog])) /\ InOrder(calls')
        /\ "regions" \in ToSet(calls') => i' <= 8
        /\ "regions" \notin ToSet(calls') => i' = 9
    <3>1. CASE i + 1 \in Regions
      BY <1>2, <2>1, <3>1 DEF CallsInv, Regions
    <3>2. CASE i + 1 \notin Regions
      BY <1>2, <2>1, <2>3, <3>2 DEF Regions
    <3> QED
      BY <3>1, <3>2
  <2>5. /\ ToSet(calls') \subseteq ToSet(calls)
        /\ ToSet(calls) \subseteq ToSet(calls') \cup {"regions"}
    <3>1. calls' = calls \/ calls' = Tail(calls)
      BY <2>1
    <3> QED
      BY <1>2, <2>1, <3>1
  <2>6. faults' \in 0..MaxFaults /\ (faults' = 0 => faults = 0 /\ answered)
    <3>1. CASE answered
      BY <1>5, <3>1 DEF Region, CallsInv
    <3>2. CASE ~answered
      BY <1>5, <3>2, MaxFaultsAssumption DEF Region, Fault, CallsInv
    <3> QED
      BY <3>1, <3>2
  <2>7. CallsInv'
    BY <2>1, <2>3, <2>4, <2>6 DEF CallsInv
  <2>8. GrantedInv'
    <3> SUFFICES ASSUME faults' = 0 PROVE GrantedInv'
      BY DEF GrantedInv
    <3>1. faults = 0 /\ known' = known \cup {i}
      BY <2>1, <2>6
    <3>2. \A r \in Regions : r < i' => r \in known'
      BY <2>1, <2>3, <3>1 DEF GrantedInv, Regions
    <3> QED
      BY <2>1, <2>4, <2>5, <3>1, <3>2 DEF GrantedInv
  <2> QED
    BY <2>7, <2>8
<1>6. CASE NoRegions
  <2>1. /\ calls # <<>> /\ Head(calls) = "regions" /\ calls' = Tail(calls)
        /\ prog' = prog /\ have' = have /\ i' = i /\ known' = known /\ faults' = faults
    BY <1>6 DEF NoRegions
  <2> QED
    BY <1>2, <1>6, <2>1, RefusalCounts DEF CallsInv, GrantedInv
<1> QED
  BY <1>3, <1>4, <1>5, <1>6 DEF SessionNext

\* Whatever is refused: a call that is over was granted, or refused for a
\* reason of its own, or it lacks what will not be granted any more; and so
\* for the loop over the regions.
RefusedInv ==
  /\ refused \subseteq ToSet(Script[prog])
  /\ \A c \in ToSet(Script[prog]) \ {"regions"} :
       \/ c \in ToSet(calls) \/ c \in have \/ c \in refused
       \/ \E d \in Needs(c) : d \notin ToSet(calls) /\ d \notin have
  /\ \A r \in Regions : r < i => r \in known \/ "regions" \in refused
  /\ "regions" \in ToSet(Script[prog]) \ ToSet(calls) =>
       i = 9 \/ ("info" \notin ToSet(calls) /\ "info" \notin have)

LEMMA InitRefused == SessionInit => RefusedInv
<1> SUFFICES ASSUME SessionInit PROVE RefusedInv
  OBVIOUS
<1>1. i = 0 /\ refused = {} /\ calls = Script[prog]
  BY DEF SessionInit
<1> QED
  BY <1>1 DEF RefusedInv, Regions

LEMMA NextRefused == CallsInv /\ RefusedInv /\ SessionNext => RefusedInv'
<1> SUFFICES ASSUME CallsInv, RefusedInv, SessionNext PROVE RefusedInv'
  OBVIOUS
<1>1. Sound(Script[prog])
  BY ScriptsSound DEF CallsInv
<1>2. ASSUME calls # <<>>
      PROVE  /\ ToSet(calls) = {Head(calls)} \cup ToSet(Tail(calls))
             /\ Head(calls) \in ToSet(Script[prog])
             /\ \A c \in Wants(Head(calls)) : c \notin ToSet(calls)
             /\ Head(calls) = "regions" => "regions" \notin ToSet(Tail(calls))
  BY <1>2, ToSetTail, InOrderTail DEF CallsInv
<1>3. ASSUME NEW call, Granted(call) PROVE RefusedInv'
  <2>1. /\ calls # <<>> /\ call = Head(calls) /\ call # "regions" /\ calls' = Tail(calls)
        /\ UNCHANGED <<prog, i, known, refused>> /\ have' = have \cup {call}
    BY <1>3 DEF Granted, Call
  <2> QED
    BY <1>2, <2>1 DEF RefusedInv
<1>4. ASSUME NEW call, Refused(call) PROVE RefusedInv'
  <2>1. /\ calls # <<>> /\ call = Head(calls) /\ call # "regions" /\ calls' = Tail(calls)
        /\ UNCHANGED <<prog, i, known, have>>
    BY <1>4 DEF Refused, Call
  <2>2. /\ refused' \in {refused, refused \cup {call}}
        /\ call \in refused' \/ \E d \in Needs(call) : d \notin have /\ d \notin ToSet(calls)
    <3>1. CASE Needs(call) \subseteq have
      BY <1>4, <3>1 DEF Refused
    <3>2. CASE ~(Needs(call) \subseteq have)
      <4>1. PICK d \in Needs(call) : d \notin have
        BY <3>2
      <4>2. d \notin ToSet(calls)
        BY <1>2, <2>1, <4>1 DEF Wants
      <4>3. refused' = refused
        BY <1>4, <3>2 DEF Refused
      <4> QED
        BY <4>1, <4>2, <4>3
    <3> QED
      BY <3>1, <3>2
  <2> QED
    BY <1>2, <2>1, <2>2 DEF RefusedInv
<1>5. ASSUME NEW answered \in BOOLEAN, Region(answered) PROVE RefusedInv'
  <2>1. /\ calls # <<>> /\ Head(calls) = "regions" /\ prog' = prog /\ have' = have
        /\ i' = i + 1 /\ calls' = IF i + 1 \in Regions THEN calls ELSE Tail(calls)
        /\ known' = IF answered THEN known \cup {i} ELSE known
    BY <1>5 DEF Region
  <2>2. refused \subseteq refused' /\ refused' \subseteq refused \cup {"regions"}
        /\ (answered \/ "regions" \in refused')
    BY <1>5 DEF Region
  <2>3. i \in 0..8
    BY <1>2, <2>1 DEF CallsInv
  <2>4. \A r \in Regions : r < i' => r \in known' \/ "regions" \in refused'
    BY <2>1, <2>2, <2>3 DEF RefusedInv, Regions
  <2>5. /\ ToSet(calls') \subseteq ToSet(calls)
        /\ ToSet(calls) \subseteq ToSet(calls') \cup {"regions"}
        /\ "regions" \notin ToSet(calls') => i' = 9
    <3>1. CASE i + 1 \in Regions
      BY <1>2, <2>1, <3>1
    <3>2. CASE i + 1 \notin Regions
      BY <1>2, <2>1, <2>3, <3>2 DEF Regions
    <3> QED
      BY <3>1, <3>2
  <2>6. refused' \subseteq ToSet(Script[prog])
    BY <1>2, <2>1, <2>2 DEF RefusedInv
  <2> QED
    BY <2>1, <2>2, <2>4, <2>5, <2>6 DEF RefusedInv
<1>6. CASE NoRegions
  <2>1. /\ calls # <<>> /\ Head(calls) = "regions" /\ calls' = Tail(calls)
        /\ UNCHANGED <<prog, have, i, known, refused>> /\ "info" \notin have
    BY <1>6 DEF NoRegions
  <2>2. "info" \notin ToSet(calls)
    BY <1>2, <2>1 DEF Wants
  <2> QED
    BY <1>2, <2>1, <2>2 DEF RefusedInv
<1> QED
  BY <1>3, <1>4, <1>5, <1>6 DEF SessionNext

\* What every step outside the session does to what the session left.
Elsewhere ==
  /\ UNCHANGED <<prog, calls, i, buf, config, known, refused>>
  /\ have' \in {have, have \cup {"msi"}}
  /\ UNCHANGED faults \/ Fault

LEMMA Steps == [Next]_vars => (SessionNext /\ UNCHANGED driverVars) \/ Elsewhere
<1> SUFFICES ASSUME [Next]_vars PROVE (SessionNext /\ UNCHANGED driverVars) \/ Elsewhere
  OBVIOUS
<1> USE DEF Elsewhere, Fault
<1>1. CASE Session  BY <1>1 DEF Session
<1>2. CASE SessionOver  BY <1>2 DEF SessionOver, sessionVars
<1>3. CASE hda_dsp_ctrl_get_caps
  BY <1>3 DEF hda_dsp_ctrl_get_caps, Denied
<1>4. CASE hda_dsp_stream_init
  BY <1>4 DEF hda_dsp_stream_init
<1>5. CASE irq_enable
  BY <1>5 DEF irq_enable, Denied
<1>6. ASSUME NEW a, Done(a) PROVE Elsewhere
  BY <1>6 DEF Done, NextAccess
<1>7. ASSUME NEW a, Fails(a) PROVE Elsewhere
  BY <1>7 DEF Fails, NextAccess, Denied
<1>8. ASSUME NEW a, Strays(a) PROVE Elsewhere
  BY <1>8 DEF Strays, NextAccess
<1>9. CASE hda_dsp_cl_boot_firmware
  BY <1>9 DEF hda_dsp_cl_boot_firmware, sessionVars
<1>10. CASE Exit  BY <1>10 DEF Exit, sessionVars
<1>11. CASE UNCHANGED vars  BY <1>11 DEF vars, sessionVars
<1> QED
  BY <1>1, <1>2, <1>3, <1>4, <1>5, <1>6, <1>7, <1>8, <1>9, <1>10, <1>11, Zenon DEF Next

LEMMA SessionStays ==
  CallsInv /\ GrantedInv /\ Elsewhere => (CallsInv /\ GrantedInv)'
<1> SUFFICES ASSUME CallsInv, GrantedInv, Elsewhere PROVE (CallsInv /\ GrantedInv)'
  OBVIOUS
<1>1. faults' \in 0..MaxFaults /\ (faults' = 0 => faults = 0)
  BY MaxFaultsAssumption DEF CallsInv, Elsewhere, Fault
<1>2. CallsInv'
  BY <1>1 DEF CallsInv, Elsewhere
<1>3. GrantedInv'
  BY <1>1 DEF GrantedInv, Elsewhere
<1> QED
  BY <1>2, <1>3

LEMMA RefusedStays == RefusedInv /\ Elsewhere => RefusedInv'
<1> SUFFICES ASSUME RefusedInv, Elsewhere PROVE RefusedInv'
  OBVIOUS
<1>1. have \subseteq have' /\ \A c : \A d \in Needs(c) : d \notin have => d \notin have'
  BY RegionsNotNeeded DEF Elsewhere
<1>2. "info" \notin have => "info" \notin have'
  BY DEF Elsewhere
<1> QED
  BY <1>1, <1>2 DEF RefusedInv, Elsewhere

\* For every program and any number of refusals: a call all of whose needs
\* are granted is granted too, unless it was itself refused.
THEOREM SetupCompletes == Spec => []SetupComplete
<1>1. Init => CallsInv /\ GrantedInv /\ RefusedInv
  BY InitCalls, InitRefused DEF Init
<1>2. CallsInv /\ GrantedInv /\ RefusedInv /\ [Next]_vars =>
        (CallsInv /\ GrantedInv /\ RefusedInv)'
  BY Steps, NextCalls, NextRefused, SessionStays, RefusedStays
<1>3. CallsInv /\ RefusedInv => SetupComplete
  <2> SUFFICES ASSUME CallsInv, RefusedInv, calls = <<>>
               PROVE  /\ \A c \in ToSet(Script[prog]) \ {"regions"} :
                           Needs(c) \subseteq have => c \in have \cup refused
                      /\ "regions" \in ToSet(Script[prog]) /\ "info" \in have =>
                           known = Regions \/ "regions" \in refused
    BY DEF SetupComplete
  <2>1. ToSet(calls) = {}
    BY EmptyCalls
  <2>2. ASSUME "regions" \in ToSet(Script[prog]), "info" \in have, "regions" \notin refused
        PROVE  known = Regions
    <3>1. i = 9
      BY <2>1, <2>2 DEF RefusedInv
    <3>2. \A r \in Regions : r < 9
      BY DEF Regions
    <3>3. Regions \subseteq known
      BY <2>2, <3>1, <3>2 DEF RefusedInv
    <3> QED
      BY <3>3 DEF CallsInv
  <2> QED
    BY <2>1, <2>2 DEF RefusedInv
<1> QED
  BY <1>1, <1>2, <1>3, PTL DEF Spec

\* A write that no read is left before finds the bytes read, unless that was
\* refused or will be for want of the configuration space; and only a refused
\* read lets another byte than the first become what it was not.
WriteInv ==
  /\ buf \in ConfigBytes /\ config \in ConfigBytes /\ config.cls # "junk"
  /\ config.rest # "initial" => "read" \in refused
  /\ \A j \in 1..Len(calls) :
       calls[j] = "write" /\ (\A k \in 1..j - 1 : calls[k] # "read") =>
         \/ buf.rest = "initial" \/ "read" \in refused
         \/ "config" \notin have /\ "config" \notin ToSet(calls)
  /\ prog = "write" /\ "write" \notin ToSet(calls) =>
       \/ config.cls = "eleven" \/ "write" \in refused
       \/ "config" \notin have /\ "config" \notin ToSet(calls)

LEMMA InitWrite == SessionInit => WriteInv
<1> SUFFICES ASSUME SessionInit PROVE WriteInv
  OBVIOUS
<1>1. Sound(Script[prog]) /\ (prog = "write" => "write" \in ToSet(calls))
  BY ScriptsSound DEF SessionInit
<1>2. calls = Script[prog] /\ buf = [cls |-> "junk", rest |-> "junk"]
      /\ config = [cls |-> "initial", rest |-> "initial"]
  BY DEF SessionInit
<1> QED
  BY <1>1, <1>2 DEF WriteInv, Sound, ConfigBytes

\* A call that is no read leaves the reads before a later write as they are.
LEMMA SameReads ==
  ASSUME NEW S, NEW s \in Seq(S), s # <<>>, Head(s) # "read",
         NEW j \in 1..Len(Tail(s)), \A k \in 1..j - 1 : Tail(s)[k] # "read"
  PROVE  j + 1 \in 1..Len(s) /\ Tail(s)[j] = s[j + 1] /\ \A k \in 1..j : s[k] # "read"
<1>1. /\ Len(Tail(s)) = Len(s) - 1 /\ Len(s) \in Nat \ {0}
      /\ \A k \in 1..Len(Tail(s)) : Tail(s)[k] = s[k + 1]
  BY HeadTailProperties, EmptySeq
<1>2. ASSUME NEW k \in 1..j, k # 1 PROVE s[k] # "read"
  <2>1. k - 1 \in 1..j - 1 /\ k - 1 \in 1..Len(Tail(s)) /\ (k - 1) + 1 = k
    BY <1>1, <1>2
  <2> QED
    BY <1>1, <2>1
<1> QED
  BY <1>1, <1>2, ToSetTail

LEMMA NextWrite == CallsInv /\ WriteInv /\ SessionNext => WriteInv'
<1> SUFFICES ASSUME CallsInv, WriteInv, SessionNext PROVE WriteInv'
  OBVIOUS
<1> DEFINE NoConfig == "config" \notin have /\ "config" \notin ToSet(calls)
<1>1. ASSUME calls # <<>>, Head(calls) # "read",
             NEW j \in 1..Len(Tail(calls)), Tail(calls)[j] = "write",
             \A k \in 1..j - 1 : Tail(calls)[k] # "read"
      PROVE  buf.rest = "initial" \/ "read" \in refused \/ NoConfig
  <2>1. /\ j + 1 \in 1..Len(calls) /\ calls[j + 1] = "write" /\ (j + 1) - 1 = j
        /\ \A k \in 1..j : calls[k] # "read"
    BY <1>1, SameReads DEF CallsInv
  <2> QED
    BY <2>1 DEF WriteInv
<1>2. ASSUME calls # <<>>
      PROVE  /\ ToSet(calls) = {Head(calls)} \cup ToSet(Tail(calls))
             /\ Head(calls) = calls[1] /\ 1 \in 1..Len(calls)
             /\ \A c \in Wants(Head(calls)) : c \notin ToSet(calls)
  BY <1>2, ToSetTail, InOrderTail DEF CallsInv
<1>3. ASSUME NEW call, Granted(call) PROVE WriteInv'
  <2>1. calls # <<>> /\ call = Head(calls) /\ calls' = Tail(calls) /\ prog' = prog
        /\ refused' = refused /\ have' = have \cup {call} /\ Needs(call) \subseteq have
    BY <1>3 DEF Granted, Call
  <2>2. NoConfig => NoConfig'
    BY <1>2, <2>1
  <2>3. CASE call = "read"
    <3>1. buf' = config /\ config' = config
      BY <1>3, <2>3 DEF Granted
    <3> QED
      BY <1>2, <2>1, <2>2, <2>3, <3>1 DEF WriteInv
  <2>4. CASE call = "write"
    <3>1. buf' = [buf EXCEPT !.cls = "eleven"] /\ config' = buf'
      BY <1>3, <2>4 DEF Granted
    <3>2. buf' \in ConfigBytes /\ buf'.rest = buf.rest /\ buf'.cls = "eleven"
      BY <3>1 DEF WriteInv, ConfigBytes
    <3>3. buf.rest = "initial" \/ "read" \in refused
      <4>1. "config" \in have
        BY <2>1, <2>4 DEF Needs
      <4> QED
        BY <1>2, <2>1, <2>4, <4>1 DEF WriteInv
    <3> QED
      BY <1>1, <2>1, <2>4, <3>1, <3>2, <3>3 DEF WriteInv
  <2>5. CASE call \notin {"read", "write"}
    <3>1. buf' = buf /\ config' = config
      BY <1>3, <2>5 DEF Granted
    <3> QED
      BY <1>1, <1>2, <2>1, <2>2, <2>5, <3>1 DEF WriteInv
  <2> QED
    BY <2>3, <2>4, <2>5
<1>4. ASSUME NEW call, Refused(call) PROVE WriteInv'
  <2>1. calls # <<>> /\ call = Head(calls) /\ calls' = Tail(calls) /\ prog' = prog
        /\ have' = have /\ config' = config
    BY <1>4 DEF Refused, Call
  <2>2. NoConfig => NoConfig'
    BY <1>2, <2>1
  <2>3. refused \subseteq refused' /\ (Needs(call) \subseteq have => call \in refused')
    BY <1>4 DEF Refused
  <2>4. CASE call \in {"read", "write"}
    <3>1. call \in refused' \/ NoConfig'
      <4>1. Needs(call) = {"config"} /\ Wants(call) = {"config"}
        BY <2>4 DEF Needs, Wants
      <4> QED
        BY <1>2, <2>1, <2>2, <2>3, <4>1
    <3>2. buf' \in ConfigBytes /\ (call = "write" => buf'.rest = buf.rest)
      BY <1>4, <2>4 DEF Refused, WriteInv, ConfigBytes
    <3> QED
      BY <1>1, <1>2, <2>1, <2>2, <2>3, <2>4, <3>1, <3>2 DEF WriteInv
  <2>5. CASE call \notin {"read", "write"}
    <3>1. buf' = buf
      BY <1>4, <2>5 DEF Refused
    <3> QED
      BY <1>1, <1>2, <2>1, <2>2, <2>3, <2>5, <3>1 DEF WriteInv
  <2> QED
    BY <2>4, <2>5
<1>5. ASSUME NEW answered \in BOOLEAN, Region(answered) PROVE WriteInv'
  <2>1. /\ calls # <<>> /\ Head(calls) = "regions" /\ prog' = prog /\ have' = have
        /\ calls' = calls \/ calls' = Tail(calls)
        /\ buf' = buf /\ config' = config
    BY <1>5 DEF Region
  <2>2. refused \subseteq refused'
    BY <1>5 DEF Region
  <2>3. CASE calls' = calls
    BY <2>1, <2>2, <2>3 DEF WriteInv
  <2>4. CASE calls' = Tail(calls)
    BY <1>1, <1>2, <2>1, <2>2, <2>4 DEF WriteInv
  <2> QED
    BY <2>1, <2>3, <2>4
<1>6. CASE NoRegions
  <2>1. /\ calls # <<>> /\ Head(calls) = "regions" /\ calls' = Tail(calls)
        /\ UNCHANGED <<prog, have, buf, config, refused>>
    BY <1>6 DEF NoRegions
  <2> QED
    BY <1>1, <1>2, <2>1 DEF WriteInv
<1> QED
  BY <1>3, <1>4, <1>5, <1>6 DEF SessionNext

LEMMA WriteStays == WriteInv /\ Elsewhere => WriteInv'
  BY DEF WriteInv, Elsewhere

\* In vfio_write, no configuration space without a refusal.
LEMMA ConfigRefused ==
  ASSUME RefusedInv, prog = "write", "config" \notin have, "config" \notin ToSet(calls)
  PROVE  \E call \in refused :
           call \in {"container", "group", "attach", "iommu", "device", "config"}
<1>1. {"container", "group", "attach", "iommu", "device", "config"} \subseteq
        ToSet(Script[prog]) \ {"regions"}
  <2>1. Len(vfio_write) = 15 /\ DOMAIN vfio_write = 1..15 /\ Script[prog] = vfio_write
    BY DEF vfio_write, Opening, Script
  <2> QED
    BY <2>1 DEF vfio_write, Opening, ToSet
<1> DEFINE Lost(c) == c \notin have /\ c \notin ToSet(calls)
<1>2. Lost("container") => "container" \in refused
  BY <1>1 DEF RefusedInv, Needs
<1>3. Lost("group") => "group" \in refused
  BY <1>1 DEF RefusedInv, Needs
<1>4. Lost("attach") => "attach" \in refused \/ Lost("container") \/ Lost("group")
  BY <1>1 DEF RefusedInv, Needs
<1>5. Lost("iommu") => "iommu" \in refused \/ Lost("container") \/ Lost("attach")
  BY <1>1 DEF RefusedInv, Needs
<1>6. Lost("device") => "device" \in refused \/ Lost("group") \/ Lost("iommu")
  BY <1>1 DEF RefusedInv, Needs
<1>7. Lost("config") => "config" \in refused \/ Lost("device")
  BY <1>1 DEF RefusedInv, Needs
<1> QED
  BY <1>2, <1>3, <1>4, <1>5, <1>6, <1>7

\* In every program and with any number of refusals: the bytes written back
\* are those read unless the read was refused, and the one byte becomes 11
\* unless a call that the write rests on was.
THEOREM OneByte == Spec => []OneByteWritten
<1>1. Init => CallsInv /\ GrantedInv /\ RefusedInv /\ WriteInv
  BY InitCalls, InitRefused, InitWrite DEF Init
<1>2. CallsInv /\ GrantedInv /\ RefusedInv /\ WriteInv /\ [Next]_vars =>
        (CallsInv /\ GrantedInv /\ RefusedInv /\ WriteInv)'
  BY Steps, NextCalls, NextRefused, NextWrite, SessionStays, RefusedStays, WriteStays
<1>3. RefusedInv /\ WriteInv => OneByteWritten
  <2> SUFFICES ASSUME RefusedInv, WriteInv PROVE OneByteWritten
    OBVIOUS
  <2>1. calls = <<>> => ToSet(calls) = {}
    BY EmptyCalls
  <2> QED
    BY <2>1, ConfigRefused DEF WriteInv, OneByteWritten
<1> QED
  BY <1>1, <1>2, <1>3, PTL DEF Spec

-----------------------------------------------------------------------------
(* Accesses.                                                               *)

AccessType == [op : {"update", "clear", "write", "boot"}, slot : Regions,
               reg : Registers, mask : SUBSET Bits, value : SUBSET Bits]

\* An access that keeps to the bits that are this program's, through the slot
\* its register belongs to; through SPIB's only if that is filled.
Proper(spib) ==
  {a \in AccessType :
     /\ a.mask \cap Others = {} /\ a.value \cap Others = {}
     /\ a.op = "write" => a.reg \notin Shared
     /\ a.reg \in Status => a.op = "clear" /\ a.mask = {"stale"}
     /\ \/ a.slot \in {HDA, DSP, CONFIG}
        \/ a.slot = PP /\ a.reg = "PPCTL"
        \/ a.slot = SPIB /\ a.reg = "SPBFCTL" /\ spib}

\* The same without the boot, which is no access but stands among them.
Plain(spib) == {a \in Proper(spib) : a.op # "boot"}

LEMMA SharedRegisters ==
  Shared = {"PGCTL", "CGCTL", "EM2", "INTCTL", "PPCTL", "SPBFCTL", "SD7_CTL"}
  BY DEF Shared, Own

LEMMA BitsOfRegisters ==
  /\ \A r \in Shared : Own[r] \subseteq Bits
  /\ "stale" \in Bits /\ "addr" \in Bits
<1>1. ASSUME NEW r \in Shared PROVE Own[r] \subseteq UNION {Own[q] : q \in Shared}
  OBVIOUS
<1>2. UNION {Own[q] : q \in Shared} \subseteq Bits /\ "stale" \in Bits /\ "addr" \in Bits
  BY DEF Bits
<1> QED
  BY <1>1, <1>2

LEMMA OwnValues ==
  /\ Own["PGCTL"] = {"TCSEL", "ADSPPGD"} /\ Own["CGCTL"] = {"ADSPDCGE"}
  /\ Own["EM2"] = {"L1SEN"} /\ Own["INTCTL"] = {"GIE", "CIE", "S7"}
  /\ Own["PPCTL"] = {"GPROCEN", "PIE", "PROCEN"} /\ Own["SPBFCTL"] = {"SPIBE"}
  /\ Own["SD7_CTL"] = {"RUN", "INTS"}
  BY DEF Own

LEMMA OwnBits ==
  /\ {"TCSEL", "ADSPPGD"} \subseteq Bits
  /\ "ADSPDCGE" \in Bits /\ "L1SEN" \in Bits
  /\ {"GIE", "CIE", "S7"} \subseteq Bits
  /\ {"GPROCEN", "PIE", "PROCEN"} \subseteq Bits
  /\ "SPIBE" \in Bits /\ {"RUN", "INTS"} \subseteq Bits
<1>1. /\ Own["PGCTL"] \subseteq Bits /\ Own["CGCTL"] \subseteq Bits
      /\ Own["EM2"] \subseteq Bits /\ Own["INTCTL"] \subseteq Bits
      /\ Own["PPCTL"] \subseteq Bits /\ Own["SPBFCTL"] \subseteq Bits
      /\ Own["SD7_CTL"] \subseteq Bits
  BY BitsOfRegisters, SharedRegisters
<1> QED
  BY OwnValues, <1>1

LEMMA StatusApart == Status \cap (Shared \cup {"DPLBASE", "DPUBASE"}) = {}
  BY StatusAssumption, SharedRegisters DEF Status

LEMMA ProperUpdate ==
  ASSUME NEW spib \in BOOLEAN, NEW slot, NEW reg \in Shared,
         NEW mask \in SUBSET Bits, NEW value \in SUBSET Bits,
         mask \cap Others = {}, value \cap Others = {},
         \/ slot \in {HDA, DSP, CONFIG}
         \/ slot = PP /\ reg = "PPCTL"
         \/ slot = SPIB /\ reg = "SPBFCTL" /\ spib
  PROVE  Update(slot, reg, mask, value) \in Plain(spib)
  BY StatusApart
  DEF Update, Access, Plain, Proper, AccessType, Registers, HDA, DSP, CONFIG, PP, SPIB, Regions

LEMMA ProperClear ==
  ASSUME NEW spib \in BOOLEAN, NEW reg \in Status
  PROVE  Clear(reg) \in Plain(spib)
  BY BitsOfRegisters
  DEF Clear, Access, Plain, Proper, AccessType, Registers, HDA, DSP, CONFIG, PP, SPIB, Regions,
      Others

LEMMA ProperWrite ==
  ASSUME NEW spib \in BOOLEAN, NEW reg \in {"DPLBASE", "DPUBASE"}, NEW value \in {{}, {"addr"}}
  PROVE  Write(reg, value) \in Plain(spib)
  BY BitsOfRegisters, SharedRegisters, StatusApart
  DEF Write, Access, Plain, Proper, AccessType, Registers, HDA, DSP, CONFIG, PP, SPIB, Regions,
      Others

\* The pieces of the probe: before and after the streams' status.
ClearTcsel == <<Update(CONFIG, "PGCTL", {"TCSEL", "ADSPPGD"}, {})>>
EnableInterrupts ==
  <<Clear("WAKESTS"), Clear("INTSTS"), Update(HDA, "INTCTL", {"CIE", "GIE"}, {"CIE", "GIE"})>>
SetPosbuf == <<Write("DPLBASE", {"addr"}), Write("DPUBASE", {})>>

LEMMA BootProper == ASSUME NEW spib \in BOOLEAN PROVE <<BootFirmware>> \in Seq(Proper(spib))
<1>1. BootFirmware \in Proper(spib)
  BY SharedRegisters, StatusApart
  DEF BootFirmware, Access, Proper, AccessType, Registers, HDA, DSP, CONFIG, Regions
<1> QED
  BY <1>1

LEMMA ProbeParts ==
  ASSUME NEW n \in 0..Len(SdSts), NEW spib \in BOOLEAN
  PROVE  /\ hda_dsp_probe(n) =
              ClearTcsel \o ClearStreams(n) \o EnableInterrupts \o SetPosbuf
              \o hda_dsp_ctrl_ppcap
         /\ ClearTcsel \o ClearStreams(n) \in Seq(Plain(spib))
         /\ EnableInterrupts \in Seq(Plain(spib)) /\ SetPosbuf \in Seq(Plain(spib))
         /\ hda_dsp_ctrl_ppcap \in Seq(Plain(spib))
<1> DEFINE S == Plain(spib)
           tcsel == Update(CONFIG, "PGCTL", {"TCSEL", "ADSPPGD"}, {})
           intctl == Update(HDA, "INTCTL", {"CIE", "GIE"}, {"CIE", "GIE"})
<1>1. hda_dsp_probe(n) =
        ClearTcsel \o ClearStreams(n) \o EnableInterrupts \o SetPosbuf
        \o hda_dsp_ctrl_ppcap
  BY DEF hda_dsp_probe, ClearTcsel, EnableInterrupts, SetPosbuf
<1>2. hda_dsp_ctrl_ppcap \in Seq(S)
  <2> DEFINE gprocen == Update(PP, "PPCTL", {"GPROCEN"}, {"GPROCEN"})
             pie == Update(PP, "PPCTL", {"PIE"}, {"PIE"})
  <2>1. gprocen \in S /\ pie \in S
    BY ProperUpdate, OwnBits, SharedRegisters DEF Others
  <2> HIDE DEF gprocen, pie, S
  <2>2. <<gprocen, pie>> \in Seq(S)
    BY <2>1
  <2> QED
    BY <2>2 DEF hda_dsp_ctrl_ppcap, gprocen, pie
<1>3. ClearStreams(n) \in Seq(S)
  <2>1. n \in Nat /\ 1..n \subseteq 1..Len(SdSts) /\ DOMAIN SdSts = 1..Len(SdSts)
    BY SdStsAssumption, LenProperties
  <2>2. \A k \in 1..n : Clear(SdSts[k]) \in S
    BY <2>1, ProperClear DEF Status, ToSet
  <2> HIDE DEF S
  <2>3. ClearStreams(n) \in [1..n -> S]
    BY <2>2 DEF ClearStreams
  <2> QED
    BY <2>1, <2>3
<1>4. tcsel \in S /\ intctl \in S
  BY ProperUpdate, OwnBits, SharedRegisters DEF Others
<1>5. Clear("WAKESTS") \in S /\ Clear("INTSTS") \in S
  BY ProperClear DEF Status
<1>6. Write("DPLBASE", {"addr"}) \in S /\ Write("DPUBASE", {}) \in S
  BY ProperWrite
<1> HIDE DEF tcsel, intctl, S
<1>7. <<tcsel>> \in Seq(S) /\ <<Clear("WAKESTS"), Clear("INTSTS"), intctl>> \in Seq(S)
  BY <1>4, <1>5
<1>8. SetPosbuf \in Seq(S)
  BY <1>6 DEF SetPosbuf
<1>9. ClearTcsel \o ClearStreams(n) \in Seq(S)
  BY <1>3, <1>7, ConcatProperties DEF ClearTcsel, tcsel
<1> QED
  BY <1>1, <1>2, <1>7, <1>8, <1>9 DEF S, EnableInterrupts, intctl

LEMMA MainProper ==
  ASSUME NEW n \in 0..Len(SdSts), NEW spib \in BOOLEAN
  PROVE  /\ main(n) \in Seq(Proper(spib))
         /\ hda_dsp_probe(n) \in Seq(Plain(spib))
         /\ \A enable \in BOOLEAN :
              hda_dsp_ctrl_clock_power_gating(enable) \in Seq(Plain(spib))
<1> DEFINE S == Plain(spib)
           T == Proper(spib)
<1>1. ASSUME NEW enable \in BOOLEAN
      PROVE  hda_dsp_ctrl_clock_power_gating(enable) \in Seq(S)
  <2> DEFINE cgctl == Update(CONFIG, "CGCTL", {"ADSPDCGE"}, IF enable THEN {"ADSPDCGE"} ELSE {})
             em2 == Update(HDA, "EM2", {"L1SEN"}, IF enable THEN {"L1SEN"} ELSE {})
             pgctl == Update(CONFIG, "PGCTL", {"ADSPPGD"}, IF enable THEN {} ELSE {"ADSPPGD"})
  <2>1. cgctl \in S
    BY ProperUpdate, OwnBits, SharedRegisters DEF Others
  <2>2. em2 \in S
    BY ProperUpdate, OwnBits, SharedRegisters DEF Others
  <2>3. pgctl \in S
    BY ProperUpdate, OwnBits, SharedRegisters DEF Others
  <2> HIDE DEF cgctl, em2, pgctl, S
  <2>4. <<cgctl, em2, pgctl>> \in Seq(S)
    BY <2>1, <2>2, <2>3
  <2> QED
    BY <2>4 DEF hda_dsp_ctrl_clock_power_gating, cgctl, em2, pgctl
<1>2. Seq(S) \subseteq Seq(T)
  BY SeqMonotonic DEF Plain
<1>3. <<BootFirmware>> \in Seq(T)
  BY BootProper
<1> HIDE DEF T
<1>4. hda_dsp_probe(n) \in Seq(S)
  <2> HIDE DEF S
  <2> DEFINE streams == ClearTcsel \o ClearStreams(n)
  <2>1. streams \in Seq(S) /\ EnableInterrupts \in Seq(S) /\ SetPosbuf \in Seq(S)
        /\ hda_dsp_ctrl_ppcap \in Seq(S)
    BY ProbeParts DEF S
  <2>2. hda_dsp_probe(n) = streams \o EnableInterrupts \o SetPosbuf
                                  \o hda_dsp_ctrl_ppcap
    BY ProbeParts
  <2> HIDE DEF streams
  <2>3. streams \o EnableInterrupts \in Seq(S)
    BY <2>1, ConcatProperties
  <2>4. streams \o EnableInterrupts \o SetPosbuf \in Seq(S)
    BY <2>1, <2>3, ConcatProperties
  <2> QED
    BY <2>1, <2>2, <2>4, ConcatProperties
<1> HIDE DEF S
<1>7. hda_dsp_probe(n) \o hda_dsp_ctrl_clock_power_gating(FALSE) \in Seq(T)
  BY <1>1, <1>2, <1>4, ConcatProperties
<1>8. hda_dsp_probe(n) \o hda_dsp_ctrl_clock_power_gating(FALSE) \o <<BootFirmware>>
        \in Seq(T)
  BY <1>3, <1>7, ConcatProperties
<1>9. main(n) \in Seq(T)
  BY <1>1, <1>2, <1>8, ConcatProperties DEF main
<1> QED
  BY <1>1, <1>4, <1>9 DEF S, T

LEMMA PrepareProper ==
  \A s \in {PrepareStream, <<Decouple>>} :
    s \in Seq(Plain(offsets[SPIB] # 0)) /\ s \in Seq(Proper(offsets[SPIB] # 0))
<1> DEFINE spib == offsets[SPIB] # 0
           S == Plain(spib)
           spibe == Update(SPIB, "SPBFCTL", {"SPIBE"}, {"SPIBE"})
<1>1. Decouple \in S /\ Couple \in S
  BY ProperUpdate, OwnBits, SharedRegisters DEF Others, Decouple, Couple
<1>2. spib => spibe \in S
  BY ProperUpdate, OwnBits, SharedRegisters DEF Others
<1>3. Seq(S) \subseteq Seq(Proper(spib))
  BY SeqMonotonic DEF Plain
<1> HIDE DEF spibe, S
<1>4. /\ <<Decouple>> \in Seq(S) /\ <<Decouple, Couple, Decouple>> \in Seq(S)
      /\ (spib => <<spibe>> \in Seq(S)) /\ <<>> \in Seq(S)
  BY <1>1, <1>2
<1>5. PrepareStream \in Seq(S)
  BY <1>4, ConcatProperties DEF PrepareStream, spibe
<1> QED
  BY <1>3, <1>4, <1>5 DEF S

LEMMA PrototypeProper == ASSUME NEW spib \in BOOLEAN PROVE vfio_boot_main \in Seq(Proper(spib))
<1> DEFINE S == Proper(spib)
           intctl == Update(HDA, "INTCTL", {"S7"}, {"S7"})
           ctl == Update(HDA, "SD7_CTL", {"RUN", "INTS"}, {"RUN", "INTS"})
<1>1. intctl \in S /\ ctl \in S
  BY ProperUpdate, OwnBits, SharedRegisters DEF Others, Plain
<1> HIDE DEF intctl, ctl, S
<1>2. <<intctl, ctl>> \in Seq(S)
  BY <1>1
<1> QED
  BY <1>2 DEF vfio_boot_main, intctl, ctl, S

-----------------------------------------------------------------------------
(* The rest of the program.                                                *)

\* Where the control is, and that the slots do not change while there are
\* accesses to be made.
FlowInv ==
  /\ pc \in {"session", "llch", "walk", "walked", "msi", "access", "exit"}
  /\ pc # "session" => calls = <<>>
  /\ pc \in {"llch", "walk", "walked", "msi"} => prog = "sof"
  /\ pc \notin {"msi", "access"} => todo = <<>>
  /\ prog \notin {"sof", "boot"} => todo = <<>>
  /\ todo \in Seq(Proper(offsets[SPIB] # 0))

\* A slot holds what the session learned of its region or, found in the walk,
\* the offset of its capability.
SlotHolds(r) ==
  \/ /\ offsets[r] = IF r \in known THEN r * Span ELSE 0
     /\ \A k \in W!Kinds : W!Slot[k] = r => W!Found(k) = {}
  \/ \E k \in W!Kinds : W!Slot[k] = r /\ offsets[r] \in W!Found(k)

SlotInv ==
  /\ offsets \in [Regions -> Nat] /\ offsets[HDA] = 0
  /\ mem \in [W!Words -> W!Headers] /\ mem[0].id = "other"
  /\ llch \in W!Words /\ offset \in W!Words /\ seen \subseteq W!Words
  /\ failed \in BOOLEAN
  /\ pc = "session" => seen = {}
  /\ prog = "sof" => \A r \in Regions : SlotHolds(r)

\* What the accesses so far have reached.
ReachInv ==
  /\ pc \notin {"access", "exit"} => stray = {} /\ missed = {}
  /\ \A r \in stray : prog = "sof" /\ r \in Regions \ {HDA, SPIB} /\ offsets[r] = 0
  /\ missed \subseteq Registers
  /\ faults = 0 =>
       \A g \in missed : \/ g = "PPCTL" /\ W!Found("PP") = {}
                         \/ g = "SPBFCTL" /\ W!Found("SPIB") = {}

RegsInv == regs \in [Registers -> SUBSET Bits] /\ OtherBitsKept

\* The walk's counter, the boot's phases and the list.
CountInv ==
  /\ count \in 0..MaxCaps + 2 /\ (pc \in {"session", "llch", "walk"} => count <= MaxCaps + 1)
  /\ phase \in {"preparing", "trying", "loading", "done"} /\ outcome \in {"none", "ok", "error"}
  /\ tries \in 0..Attempts /\ (phase \in {"preparing", "trying"} => tries < Attempts)
  /\ listed \in 0..Len(SdSts)

LEMMA InitFlow == Init => FlowInv
<1> SUFFICES ASSUME Init PROVE FlowInv
  OBVIOUS
<1>1. pc = "session" /\ todo = <<>>
  BY DEF Init
<1> QED
  BY <1>1, EmptySeq DEF FlowInv

LEMMA InitSlots == Init => SlotInv
<1> SUFFICES ASSUME Init PROVE SlotInv
  OBVIOUS
<1>1. \A r \in Regions : offsets[r] = 0 /\ r \notin known
  BY DEF Init, SessionInit
<1>2. offsets \in [Regions -> Nat]
  BY DEF Init, SessionInit
<1>3. mem \in [W!Words -> W!Headers] /\ mem[0].id = "other" /\ llch \in W!Words
  BY ListsAssumption DEF Init
<1>4. offset \in W!Words /\ seen = {} /\ failed \in BOOLEAN
  BY DEF Init, W!Words
<1> QED
  BY <1>1, <1>2, <1>3, <1>4 DEF SlotInv, SlotHolds, W!Found, Regions, HDA

LEMMA InitReach == Init => ReachInv
  BY DEF Init, ReachInv

LEMMA InitRegs == Init => RegsInv
<1> SUFFICES ASSUME Init PROVE RegsInv
  OBVIOUS
<1>1. PICK left \in BOOLEAN :
        regs = [r \in Registers |->
                 IF r \in Shared THEN {"other"} \cup (IF left THEN Own[r] ELSE {})
                 ELSE IF r \in Status THEN {"stale"} ELSE {}]
  BY DEF Init
<1>2. "other" \in Bits
  BY DEF Bits, Others
<1>3. regs \in [Registers -> SUBSET Bits]
  <2> SUFFICES ASSUME NEW r \in Registers PROVE regs[r] \subseteq Bits
    BY <1>1
  <2>1. CASE r \in Shared
    BY <1>1, <1>2, <2>1, BitsOfRegisters
  <2>2. CASE r \notin Shared
    BY <1>1, <2>2, BitsOfRegisters
  <2> QED
    BY <2>1, <2>2
<1>4. OtherBitsKept
  <2> SUFFICES ASSUME NEW r \in Shared PROVE regs[r] \cap Others = {"other"}
    BY DEF OtherBitsKept
  <2>1. regs[r] = {"other"} \cup (IF left THEN Own[r] ELSE {})
    <3>1. r \in Registers
      BY DEF Registers
    <3> QED
      BY <1>1, <3>1, Zenon
  <2>2. Own[r] \cap Others = {}
    BY SharedRegisters, OwnValues DEF Others
  <2> QED
    BY <2>1, <2>2 DEF Others
<1> QED
  BY <1>3, <1>4 DEF RegsInv

LEMMA InitCount == Init => CountInv
<1> SUFFICES ASSUME Init PROVE CountInv
  OBVIOUS
<1>1. count = 0 /\ listed = 0 /\ tries = 0 /\ phase = "preparing" /\ outcome = "none"
  BY DEF Init, B!Init
<1>2. Len(SdSts) \in Nat
  BY SdStsAssumption, LenProperties
<1> QED
  BY <1>1, <1>2, LimitsAssumption DEF CountInv

LEMMA NextFlow == CallsInv /\ FlowInv /\ CountInv /\ [Next]_vars => FlowInv'
<1> SUFFICES ASSUME CallsInv, FlowInv, CountInv, [Next]_vars PROVE FlowInv'
  OBVIOUS
<1>0. \A S : <<>> \in Seq(S)
  BY EmptySeq
<1>1. CASE Session
  <2>1. prog' = prog /\ pc' = pc /\ todo' = <<>> /\ pc = "session"
    BY <1>1 DEF Session, SessionNext, Granted, Refused, Call, Region, NoRegions, driverVars,
       ioVars, FlowInv
  <2> QED
    BY <1>0, <2>1 DEF FlowInv
<1>2. CASE SessionOver
  <2>1. /\ pc = "session" /\ calls' = <<>> /\ prog' = prog /\ offsets' = offsets
        /\ pc' = IF prog = "sof" THEN "llch" ELSE "access"
        /\ todo' = IF prog = "boot" THEN vfio_boot_main ELSE <<>>
    BY <1>2 DEF SessionOver, sessionVars
  <2>2. todo' \in Seq(Proper(offsets'[SPIB] # 0))
    BY <1>0, <2>1, PrototypeProper
  <2> QED
    BY <2>1, <2>2 DEF FlowInv
<1>3. CASE hda_dsp_ctrl_get_caps
  <2>1. /\ pc \in {"llch", "walk"} /\ pc' \in {"walk", "walked"}
        /\ prog' = prog /\ calls' = calls /\ todo' = todo
    BY <1>3 DEF hda_dsp_ctrl_get_caps, ioVars, W!ReadStart, W!StartFails, W!Start,
       W!ReadHeader, W!HeaderFails, W!Visit
  <2> QED
    BY <1>0, <2>1 DEF FlowInv
<1>4. CASE hda_dsp_stream_init
  <2>1. /\ pc = "walked" /\ pc' = "msi" /\ todo' = main(listed')
        /\ prog' = prog /\ calls' = calls /\ offsets' = offsets
    BY <1>4 DEF hda_dsp_stream_init
  <2>2. listed' \in 0..Len(SdSts)
    <3>1. Len(SdSts) \in Nat
      BY SdStsAssumption, LenProperties
    <3> QED
      BY <1>4, <3>1 DEF hda_dsp_stream_init, CountInv
  <2>3. todo' \in Seq(Proper(offsets'[SPIB] # 0))
    BY <2>1, <2>2, MainProper
  <2> QED
    BY <2>1, <2>3 DEF FlowInv
<1>5. CASE irq_enable
  BY <1>5 DEF irq_enable, ioVars, FlowInv
<1>6. ASSUME NEW a, NextAccess(a) PROVE FlowInv'
  <2>1. /\ pc = "access" /\ todo # <<>> /\ todo' = Tail(todo) /\ pc' = pc
        /\ prog' = prog /\ calls' = calls /\ offsets' = offsets
    BY <1>6 DEF NextAccess
  <2>2. todo' \in Seq(Proper(offsets'[SPIB] # 0))
    BY <2>1, HeadTailProperties DEF FlowInv
  <2> QED
    BY <2>1, <2>2 DEF FlowInv
<1>7. CASE hda_dsp_cl_boot_firmware
  <2>1. /\ pc = "access" /\ todo # <<>> /\ pc' = pc
        /\ prog' = prog /\ calls' = calls /\ offsets' = offsets
    BY <1>7 DEF hda_dsp_cl_boot_firmware, sessionVars
  <2>2. \/ todo' \in {todo, Tail(todo)}
        \/ \E s \in {PrepareStream, <<Decouple>>} : todo' = s \o todo
    BY <1>7 DEF hda_dsp_cl_boot_firmware, Prepare, Attempt, Return
  <2>3. todo' \in Seq(Proper(offsets'[SPIB] # 0))
    <3> DEFINE S == Proper(offsets[SPIB] # 0)
    <3>1. todo \in Seq(S) /\ \A s \in {PrepareStream, <<Decouple>>} : s \in Seq(S)
      BY PrepareProper DEF FlowInv
    <3> HIDE DEF S
    <3>2. /\ Tail(todo) \in Seq(S)
          /\ \A s \in {PrepareStream, <<Decouple>>} : s \o todo \in Seq(S)
      BY <2>1, <3>1, HeadTailProperties, ConcatProperties
    <3>3. todo' \in Seq(S)
      BY <2>2, <3>1, <3>2
    <3> QED
      BY <2>1, <3>3 DEF S
  <2> QED
    BY <2>1, <2>3 DEF FlowInv
<1>8. CASE Exit
  BY <1>8 DEF Exit, sessionVars, ioVars, FlowInv
<1>9. CASE UNCHANGED vars
  BY <1>9 DEF vars, sessionVars, driverVars, ioVars, FlowInv
<1> QED
  BY <1>1, <1>2, <1>3, <1>4, <1>5, <1>6, <1>7, <1>8, <1>9, Zenon
  DEF Next, Done, Fails, Strays

LEMMA NextCount == CountInv /\ [Next]_vars => CountInv'
<1> SUFFICES ASSUME CountInv, [Next]_vars PROVE CountInv'
  OBVIOUS
<1>1. CASE Session
  BY <1>1 DEF Session, driverVars, walkVars, bootVars, CountInv
<1>2. CASE SessionOver
  BY <1>2 DEF SessionOver, walkVars, bootVars, CountInv
<1>3. CASE hda_dsp_ctrl_get_caps
  BY <1>3, LimitsAssumption
  DEF hda_dsp_ctrl_get_caps, bootVars, W!ReadStart, W!StartFails, W!Start, W!ReadHeader,
      W!HeaderFails, W!Visit, W!Again, W!Counted, CountInv
<1>4. CASE hda_dsp_stream_init
  <2>1. Len(SdSts) \in Nat
    BY SdStsAssumption, LenProperties
  <2>2. listed' \in 0..Len(SdSts)
    BY <1>4, <2>1 DEF hda_dsp_stream_init, CountInv
  <2> QED
    BY <1>4, <2>2 DEF hda_dsp_stream_init, walkVars, bootVars, CountInv
<1>5. CASE irq_enable
  BY <1>5 DEF irq_enable, walkVars, bootVars, CountInv
<1>6. ASSUME NEW a, NextAccess(a) PROVE CountInv'
  BY <1>6 DEF NextAccess, walkVars, bootVars, CountInv
<1>7. CASE hda_dsp_cl_boot_firmware
  <2>1. count' = count /\ pc' = pc /\ listed' = listed
    BY <1>7 DEF hda_dsp_cl_boot_firmware, walkVars
  <2>2. B!Prepare \/ B!TryFails \/ B!TrySucceeds \/ B!Load \/ UNCHANGED bootVars
    BY <1>7 DEF hda_dsp_cl_boot_firmware, Prepare, Attempt, Return
  <2> QED
    BY <2>1, <2>2, LimitsAssumption
    DEF CountInv, bootVars, B!Prepare, B!TryFails, B!TrySucceeds, B!Load
<1>8. CASE Exit
  BY <1>8 DEF Exit, walkVars, bootVars, CountInv
<1>9. CASE UNCHANGED vars
  BY <1>9 DEF vars, driverVars, walkVars, bootVars, CountInv
<1> QED
  BY <1>1, <1>2, <1>3, <1>4, <1>5, <1>6, <1>7, <1>8, <1>9, Zenon
  DEF Next, Done, Fails, Strays

\* The next access, when there is one, is of the kind the list promises.
LEMMA NextIsProper ==
  ASSUME FlowInv, NEW a, NextAccess(a)
  PROVE  a \in Proper(offsets[SPIB] # 0) /\ a.op # "boot" /\ pc = "access"
<1>1. a = Head(todo) /\ todo # <<>> /\ todo \in Seq(Proper(offsets[SPIB] # 0))
  BY DEF NextAccess, FlowInv
<1>2. Head(todo) \in Proper(offsets[SPIB] # 0)
  BY <1>1, HeadTailProperties
<1> QED
  BY <1>1, <1>2 DEF NextAccess

LEMMA NextRegs == FlowInv /\ RegsInv /\ [Next]_vars => RegsInv'
<1> SUFFICES ASSUME FlowInv, RegsInv, [Next]_vars PROVE RegsInv'
  OBVIOUS
<1>1. ASSUME UNCHANGED regs, missed \subseteq missed' PROVE RegsInv'
  BY <1>1 DEF RegsInv, OtherBitsKept
<1>2. ASSUME NEW a, Done(a) PROVE RegsInv'
  <2>1. a \in AccessType /\ a.op # "boot" /\ a.mask \cap Others = {} /\ a.value \cap Others = {}
        /\ (a.op = "write" => a.reg \notin Shared)
    BY <1>2, NextIsProper DEF Done, Proper
  <2>2. regs' = [regs EXCEPT ![a.reg] = Written(a, @)] /\ missed' = missed
    BY <1>2 DEF Done
  <2>3. a.reg \in Registers /\ a.mask \subseteq Bits /\ a.value \subseteq Bits
        /\ a.op \in {"update", "clear", "write"} /\ regs[a.reg] \subseteq Bits
    BY <2>1 DEF AccessType, RegsInv
  <2>4. Written(a, regs[a.reg]) \subseteq Bits
    BY <2>3 DEF Written
  <2>5. a.reg \in Shared => Written(a, regs[a.reg]) \cap Others = regs[a.reg] \cap Others
    BY <2>1, <2>3 DEF Written
  <2>6. regs' \in [Registers -> SUBSET Bits]
    BY <2>2, <2>4 DEF RegsInv
  <2>7. \A r \in Registers : regs'[r] = IF r = a.reg THEN Written(a, regs[a.reg]) ELSE regs[r]
    BY <2>2, <2>3 DEF RegsInv
  <2>8. OtherBitsKept'
    <3> SUFFICES ASSUME NEW r \in Shared \ missed PROVE regs'[r] \cap Others = {"other"}
      BY <2>2 DEF OtherBitsKept
    <3>1. r \in Registers /\ regs[r] \cap Others = {"other"}
      BY DEF Registers, RegsInv, OtherBitsKept
    <3> QED
      BY <2>5, <2>7, <3>1
  <2> QED
    BY <2>6, <2>8 DEF RegsInv
<1>3. ASSUME NEW a, Fails(a) PROVE RegsInv'
  <2>1. a \in AccessType
    BY <1>3, NextIsProper DEF Fails, Proper
  <2>2. a.reg \in Registers /\ a.value \subseteq Bits
    BY <2>1 DEF AccessType
  <2>3. missed' = missed \cup {a.reg}
        /\ (regs' = regs \/ regs' = [regs EXCEPT ![a.reg] = a.value])
    BY <1>3 DEF Fails
  <2>4. CASE regs' = [regs EXCEPT ![a.reg] = a.value]
    <3>1. regs' \in [Registers -> SUBSET Bits]
      BY <2>2, <2>4 DEF RegsInv
    <3>2. \A r \in Registers \ {a.reg} : regs'[r] = regs[r]
      BY <2>4 DEF RegsInv
    <3>3. OtherBitsKept'
      BY <2>3, <3>2 DEF RegsInv, OtherBitsKept, Registers
    <3> QED
      BY <3>1, <3>3 DEF RegsInv
  <2> QED
    BY <1>1, <2>3, <2>4
<1>4. ASSUME NEW a, Strays(a) PROVE RegsInv'
  BY <1>1, <1>4 DEF Strays
<1>5. CASE hda_dsp_cl_boot_firmware
  BY <1>1, <1>5 DEF hda_dsp_cl_boot_firmware
<1>6. CASE Session \/ SessionOver \/ hda_dsp_ctrl_get_caps \/ irq_enable \/ Exit
           \/ hda_dsp_stream_init
  BY <1>1, <1>6 DEF Session, driverVars, SessionOver, hda_dsp_ctrl_get_caps, irq_enable, Exit,
     ioVars, hda_dsp_stream_init
<1>7. CASE UNCHANGED vars
  BY <1>1, <1>7 DEF vars, driverVars, ioVars
<1> QED
  BY <1>2, <1>3, <1>4, <1>5, <1>6, <1>7, Zenon DEF Next

\* A step of the session, or one that leaves it as it is.
LEMMA NextSession == CallsInv /\ GrantedInv /\ [Next]_vars => (CallsInv /\ GrantedInv)'
  BY Steps, NextCalls, SessionStays

\* For every device, every list and any number of refused accesses: no
\* register that was always reached has lost or gained a bit of another.
THEOREM OthersKept == Spec => []OtherBitsKept
<1> DEFINE Inv == CallsInv /\ GrantedInv /\ FlowInv /\ CountInv /\ RegsInv
<1>1. Init => Inv
  BY InitCalls, InitFlow, InitCount, InitRegs DEF Init
<1>2. Inv /\ [Next]_vars => Inv'
  BY NextSession, NextFlow, NextCount, NextRegs
<1>3. Inv => OtherBitsKept
  BY DEF RegsInv
<1> QED
  BY <1>1, <1>2, <1>3, PTL DEF Spec

\* The walk's three slots and its headers, as in module CapWalk.
LEMMA WalkFacts ==
  /\ \A k \in W!Kinds : W!Slot[k] \in Regions \ {HDA}
  /\ "other" \notin W!Kinds
  /\ W!Words \subseteq Nat /\ 0 \in W!Words
  /\ W!NoHeader \in W!Headers /\ W!NoHeader.id \notin W!Kinds
<1>1. Places \subseteq Nat
  BY PlacesBelowSpan, SpanIsPositive
<1> QED
  BY <1>1 DEF W!Kinds, W!Slot, W!Words, W!NoHeader, W!Headers, Regions, HDA

\* A header that is read puts its offset into its kind's slot.
LEMMA RecordHolds ==
  ASSUME SlotInv, prog = "sof", mem' = mem, known' = known,
         offsets' = W!Record(mem[offset]), seen' = seen \cup {offset}
  PROVE  /\ offsets' \in [Regions -> Nat] /\ offsets'[HDA] = 0
         /\ \A r \in Regions : SlotHolds(r)'
<1> DEFINE header == mem[offset]
<1>1. header \in W!Headers /\ offset \in Nat /\ offsets \in [Regions -> Nat] /\ offsets[HDA] = 0
  BY WalkFacts DEF SlotInv
<1>2. \A r \in Regions :
        offsets'[r] = IF header.id \in W!Kinds /\ W!Slot[header.id] = r THEN offset ELSE offsets[r]
  BY <1>1, WalkFacts DEF W!Record, HDA
<1>3. offsets' \in [Regions -> Nat] /\ offsets'[HDA] = 0
  <2>1. HDA \in Regions /\ offsets[0] + offset = offset
    BY <1>1 DEF HDA, Regions
  <2>2. offsets' \in [Regions -> Nat]
    BY <1>1, <2>1, WalkFacts DEF W!Record
  <2> QED
    BY <1>1, <1>2, <2>1, <2>2, WalkFacts
<1>4. ASSUME NEW r \in Regions PROVE SlotHolds(r)'
  <2>1. ASSUME NEW k \in W!Kinds, k = header.id, W!Slot[k] = r PROVE SlotHolds(r)'
    <3>1. offset \in W!Found(k)' /\ offsets'[r] = offset
      BY <1>2, <2>1 DEF W!Found
    <3> QED
      BY <2>1, <3>1 DEF SlotHolds
  <2>2. CASE ~(header.id \in W!Kinds /\ W!Slot[header.id] = r)
    <3>1. offsets'[r] = offsets[r] /\ SlotHolds(r)
      BY <1>2, <2>2 DEF SlotInv
    <3>2. ASSUME NEW k \in W!Kinds, W!Slot[k] = r PROVE W!Found(k)' = W!Found(k)
      <4>1. header.id # k
        BY <2>2, <3>2
      <4> QED
        BY <4>1 DEF W!Found
    <3>3. CASE \E k \in W!Kinds : W!Slot[k] = r /\ offsets[r] \in W!Found(k)
      <4>1. PICK k \in W!Kinds : W!Slot[k] = r /\ offsets[r] \in W!Found(k)
        BY <3>3
      <4>2. offsets'[r] \in W!Found(k)'
        BY <3>1, <3>2, <4>1
      <4> QED
        BY <4>1, <4>2 DEF SlotHolds
    <3>4. CASE ~\E k \in W!Kinds : W!Slot[k] = r /\ offsets[r] \in W!Found(k)
      <4>1. offsets'[r] = IF r \in known' THEN r * Span ELSE 0
        BY <3>1, <3>4 DEF SlotHolds
      <4>2. \A k \in W!Kinds : W!Slot[k] = r => W!Found(k)' = {}
        BY <3>1, <3>2, <3>4 DEF SlotHolds
      <4> QED
        BY <4>1, <4>2 DEF SlotHolds
    <3> QED
      BY <3>3, <3>4
  <2> QED
    BY <2>1, <2>2
<1> QED
  BY <1>3, <1>4

LEMMA NextSlots == CallsInv /\ FlowInv /\ SlotInv /\ [Next]_vars => SlotInv'
<1> SUFFICES ASSUME CallsInv, FlowInv, SlotInv, [Next]_vars PROVE SlotInv'
  OBVIOUS
<1>1. ASSUME UNCHANGED <<prog, offsets, known, walkVars>>, pc' = "session" => pc = "session"
      PROVE  SlotInv'
  BY <1>1 DEF walkVars, SlotInv, SlotHolds, W!Found
<1>2. CASE Session
  <2>1. prog' = prog /\ UNCHANGED <<pc, walkVars>> /\ pc = "session"
        /\ ((offsets' = offsets /\ known' = known) \/ \E answered \in BOOLEAN : Region(answered))
    BY <1>2 DEF Session, SessionNext, Granted, Refused, Call, Region, NoRegions, driverVars
  <2>2. CASE offsets' = offsets /\ known' = known
    BY <1>1, <2>1, <2>2
  <2>3. ASSUME NEW answered \in BOOLEAN, Region(answered) PROVE SlotInv'
    <3>1. i \in Regions /\ i \notin known /\ i \in Nat
      BY <2>3, ToSetTail DEF Region, CallsInv, Regions
    <3>2. offsets' = [offsets EXCEPT ![i] = IF answered /\ prog = "sof" THEN i * Span ELSE 0]
          /\ known' = IF answered THEN known \cup {i} ELSE known
      BY <2>3 DEF Region
    <3>3. i * Span \in Nat /\ 0 * Span = 0
      BY <3>1, SpanIsPositive
    <3>4. offsets' \in [Regions -> Nat] /\ offsets'[HDA] = 0
      BY <3>1, <3>2, <3>3 DEF SlotInv, HDA, Regions
    <3>5. \A k : W!Found(k) = {} /\ W!Found(k)' = {}
      BY <2>1 DEF SlotInv, W!Found, walkVars
    <3>6. ASSUME prog = "sof", NEW r \in Regions PROVE SlotHolds(r)'
      <4>1. offsets[r] = IF r \in known THEN r * Span ELSE 0
        BY <3>5, <3>6 DEF SlotInv, SlotHolds
      <4>2. offsets'[r] = IF r \in known' THEN r * Span ELSE 0
        BY <3>1, <3>2, <3>6, <4>1 DEF SlotInv
      <4> QED
        BY <3>5, <4>2 DEF SlotHolds
    <3> QED
      BY <2>1, <3>4, <3>6 DEF SlotInv, walkVars
  <2> QED
    BY <2>1, <2>2, <2>3
<1>3. CASE SessionOver
  BY <1>1, <1>3 DEF SessionOver, sessionVars
<1>4. CASE hda_dsp_ctrl_get_caps
  <2>1. /\ prog' = prog /\ known' = known /\ prog = "sof" /\ mem' = mem /\ llch' = llch
        /\ pc' # "session"
        /\ W!ReadStart \/ W!StartFails \/ W!ReadHeader \/ W!HeaderFails
    BY <1>4 DEF hda_dsp_ctrl_get_caps, FlowInv, W!ReadStart, W!StartFails, W!Start,
       W!ReadHeader, W!HeaderFails, W!Visit, W!device
  <2>2. failed' \in BOOLEAN
    BY <2>1, Zenon DEF SlotInv, W!ReadStart, W!StartFails, W!ReadHeader, W!HeaderFails
  <2>3. CASE W!ReadStart \/ W!StartFails
    <3>1. offsets' = offsets /\ seen' = seen /\ offset' \in W!Words
      BY <2>3, WalkFacts DEF W!ReadStart, W!StartFails, W!Start, SlotInv
    <3> QED
      BY <2>1, <2>2, <3>1 DEF SlotInv, SlotHolds, W!Found
  <2>4. CASE W!ReadHeader
    <3>1. offsets' = W!Record(mem[offset]) /\ seen' = seen \cup {offset}
          /\ offset' = mem[offset].next
      BY <2>4 DEF W!ReadHeader, W!Visit
    <3>2. offset' \in W!Words /\ seen' \subseteq W!Words
      BY <3>1 DEF SlotInv, W!Headers
    <3> QED
      BY <2>1, <2>2, <3>1, <3>2, RecordHolds DEF SlotInv
  <2>5. CASE W!HeaderFails
    <3>1. offsets' = offsets /\ seen' = seen /\ offset' \in W!Words
      BY <2>5, WalkFacts DEF W!HeaderFails, W!Visit, W!Record, W!Headers
    <3> QED
      BY <2>1, <2>2, <3>1 DEF SlotInv, SlotHolds, W!Found
  <2> QED
    BY <2>1, <2>3, <2>4, <2>5
<1>5. CASE hda_dsp_stream_init \/ irq_enable
  BY <1>1, <1>5 DEF hda_dsp_stream_init, irq_enable
<1>6. ASSUME NEW a, NextAccess(a) PROVE SlotInv'
  BY <1>1, <1>6 DEF NextAccess
<1>7. CASE hda_dsp_cl_boot_firmware \/ Exit
  BY <1>1, <1>7 DEF hda_dsp_cl_boot_firmware, Exit, sessionVars
<1>8. CASE UNCHANGED vars
  BY <1>1, <1>8 DEF vars, driverVars, sessionVars
<1> QED
  BY <1>2, <1>3, <1>4, <1>5, <1>6, <1>7, <1>8, Zenon DEF Next, Done, Fails, Strays

\* Where a slot leads when it holds 0, or an offset of a region of its own.
LEMMA SlotsLead ==
  ASSUME SlotInv, prog = "sof", NEW r \in Regions \ {HDA}
  PROVE  /\ offsets[r] = 0 => r \notin known
         /\ offsets[r] = 0 \/ offsets[r] >= Span =>
              \A k \in W!Kinds : W!Slot[k] = r => W!Found(k) = {}
<1>1. ASSUME NEW k \in W!Kinds, NEW p \in W!Found(k) PROVE p \in 1..Span - 1
  <2>1. p \in W!Words /\ mem[p].id = k
    BY <1>1 DEF W!Found, SlotInv
  <2>2. p # 0
    BY <1>1, <2>1, WalkFacts DEF SlotInv
  <2> QED
    BY <2>1, <2>2, PlacesBelowSpan DEF W!Words
<1>2. \A p \in 1..Span - 1 : p # 0 /\ ~(p >= Span)
  BY SpanIsPositive
<1>3. SlotHolds(r)
  BY DEF SlotInv
<1>4. CASE offsets[r] = 0 \/ offsets[r] >= Span
  <2>1. \A k \in W!Kinds : offsets[r] \notin W!Found(k)
    BY <1>1, <1>2, <1>4
  <2>2. /\ offsets[r] = IF r \in known THEN r * Span ELSE 0
        /\ \A k \in W!Kinds : W!Slot[k] = r => W!Found(k) = {}
    BY <1>3, <2>1 DEF SlotHolds
  <2>3. r * Span # 0
    BY SpanIsPositive DEF Regions, HDA
  <2> QED
    BY <2>2, <2>3
<1> QED
  BY <1>4

\* With nothing refused, a program that makes accesses has the device, and
\* main() of sof-vfio knows all regions.
LEMMA AllGranted ==
  ASSUME CallsInv, GrantedInv, FlowInv, pc = "access", todo # <<>>, faults = 0
  PROVE  "device" \in have /\ (prog = "sof" => known = Regions)
<1>1. calls = <<>> /\ ToSet(calls) = {} /\ prog \in {"sof", "boot"}
  BY EmptyCalls DEF FlowInv
<1>2. Script[prog] = IF prog = "sof" THEN vfio_setup ELSE vfio_boot
  BY <1>1 DEF Script
<1>3. "device" \in ToSet(vfio_setup) /\ "regions" \in ToSet(vfio_setup)
  <2>1. vfio_setup[7] = "device" /\ vfio_setup[9] = "regions" /\ DOMAIN vfio_setup = 1..9
    BY DEF vfio_setup, Opening
  <2> QED
    BY <2>1 DEF ToSet
<1>4. "device" \in ToSet(vfio_boot)
  <2>1. vfio_boot[7] = "device" /\ DOMAIN vfio_boot = 1..13
    BY DEF vfio_boot, load_fw_for_dma, Opening
  <2> QED
    BY <2>1 DEF ToSet
<1>5. "device" \in have
  BY <1>1, <1>2, <1>3, <1>4 DEF GrantedInv
<1>6. ASSUME prog = "sof" PROVE known = Regions
  <2>1. i = 9
    BY <1>1, <1>2, <1>3, <1>6 DEF GrantedInv
  <2>2. Regions \subseteq known
    BY <2>1 DEF GrantedInv, Regions
  <2> QED
    BY <2>2 DEF CallsInv
<1> QED
  BY <1>5, <1>6

LEMMA NextReach ==
  CallsInv /\ GrantedInv /\ FlowInv /\ SlotInv /\ ReachInv /\ [Next]_vars => ReachInv'
<1> SUFFICES ASSUME CallsInv, GrantedInv, FlowInv, SlotInv, ReachInv, [Next]_vars
             PROVE  ReachInv'
  OBVIOUS
<1>1. ASSUME pc \notin {"access", "exit"}, UNCHANGED <<stray, missed>> PROVE ReachInv'
  BY <1>1 DEF ReachInv
<1>2. ASSUME pc \in {"access", "exit"}, pc' \in {"access", "exit"},
             UNCHANGED <<prog, offsets, mem, seen, missed>>, faults' = 0 => faults = 0,
             \A r \in stray' \ stray :
               prog = "sof" /\ r \in Regions \ {HDA, SPIB} /\ offsets[r] = 0
      PROVE  ReachInv'
  BY <1>2 DEF ReachInv, W!Found
<1>3. CASE Session \/ SessionOver \/ hda_dsp_ctrl_get_caps \/ hda_dsp_stream_init \/ irq_enable
  <2>1. pc \notin {"access", "exit"} /\ UNCHANGED <<stray, missed>>
    BY <1>3 DEF Session, driverVars, ioVars, SessionOver, hda_dsp_ctrl_get_caps,
       hda_dsp_stream_init, irq_enable, W!ReadStart, W!StartFails, W!Start, W!ReadHeader,
       W!HeaderFails, W!Visit
  <2> QED
    BY <1>1, <2>1
<1>4. ASSUME NEW a, NextAccess(a)
      PROVE  /\ pc = "access" /\ pc' = "access" /\ todo # <<>> /\ prog \in {"sof", "boot"}
             /\ UNCHANGED <<prog, offsets, mem, seen>>
             /\ a.reg \in Registers /\ a.slot \in Regions
             /\ a.slot = PP => a.reg = "PPCTL"
             /\ a.slot = SPIB => a.reg = "SPBFCTL" /\ offsets[SPIB] # 0
  <2>1. a \in Proper(offsets[SPIB] # 0)
    BY <1>4, NextIsProper
  <2>2. a.reg \in Registers /\ a.slot \in Regions
    BY <2>1 DEF Proper, AccessType
  <2>3. /\ a.slot = PP => a.reg = "PPCTL"
        /\ a.slot = SPIB => a.reg = "SPBFCTL" /\ offsets[SPIB] # 0
    BY <2>1 DEF Proper, PP, SPIB, HDA, DSP, CONFIG
  <2> QED
    BY <1>4, <2>2, <2>3 DEF NextAccess, walkVars, FlowInv
<1>5. ASSUME NEW a, Done(a) PROVE ReachInv'
  BY <1>2, <1>4, <1>5 DEF Done
<1>6. ASSUME NEW a, Fails(a) PROVE ReachInv'
  <2>1. missed' = missed \cup {a.reg} /\ stray' = stray /\ NextAccess(a)
    BY <1>6 DEF Fails
  <2>2. faults' = 0 => faults = 0
    BY <1>6 DEF Fails, Denied, Fault, CallsInv
  <2>3. ASSUME faults' = 0
        PROVE  \/ a.reg = "PPCTL" /\ W!Found("PP") = {}
               \/ a.reg = "SPBFCTL" /\ W!Found("SPIB") = {}
    <3>1. "device" \in have
      BY <1>4, <2>1, <2>2, <2>3, AllGranted
    <3>2. Leads(a.slot) = "nowhere"
      BY <1>6, <2>2, <2>3, <3>1 DEF Fails, Denied, Fault, CallsInv
    <3>3. prog = "sof" /\ a.slot \in {PP, SPIB} /\ offsets[a.slot] >= Span
      BY <1>4, <2>1, <3>2 DEF Leads, LeadsByQuery, LeadsByOffset
    <3>4. \A k \in W!Kinds : W!Slot[k] = a.slot => W!Found(k) = {}
      BY <3>3, SlotsLead DEF Regions, HDA, PP, SPIB
    <3>5. W!Slot["PP"] = PP /\ W!Slot["SPIB"] = SPIB /\ {"PP", "SPIB"} \subseteq W!Kinds
      BY DEF W!Slot, W!Kinds, PP, SPIB
    <3> QED
      BY <1>4, <2>1, <3>3, <3>4, <3>5
  <2>4. /\ pc = "access" /\ pc' = "access" /\ UNCHANGED <<prog, offsets, mem, seen>>
        /\ a.reg \in Registers
    BY <1>4, <2>1
  <2> QED
    BY <2>1, <2>2, <2>3, <2>4 DEF ReachInv, W!Found
<1>7. ASSUME NEW a, Strays(a) PROVE ReachInv'
  <2>1. /\ missed' = missed \cup {a.reg} /\ stray' \subseteq stray \cup {a.slot}
        /\ NextAccess(a) /\ Leads(a.slot) = "astray" /\ faults' = faults
    BY <1>7 DEF Strays
  <2>2. prog = "sof" /\ a.slot # HDA /\ offsets[a.slot] = 0
    BY <1>4, <2>1 DEF Leads, LeadsByQuery, LeadsByOffset
  <2>3. a.slot \in Regions \ {HDA, SPIB}
    BY <1>4, <2>1, <2>2
  <2>4. faults # 0
    BY <1>4, <2>1, <2>2, <2>3, SlotsLead, AllGranted
  <2>5. /\ pc = "access" /\ pc' = "access" /\ UNCHANGED <<prog, offsets, mem, seen>>
        /\ a.reg \in Registers
    BY <1>4, <2>1
  <2> QED
    BY <2>1, <2>2, <2>3, <2>4, <2>5 DEF ReachInv
<1>8. CASE hda_dsp_cl_boot_firmware
  <2>1. /\ pc = "access" /\ pc' = pc /\ todo # <<>> /\ missed' = missed
        /\ UNCHANGED <<prog, offsets, mem, seen, faults>>
    BY <1>8 DEF hda_dsp_cl_boot_firmware, sessionVars, walkVars
  <2>2. prog \in {"sof", "boot"}
    BY <2>1 DEF FlowInv
  <2>3. stray' = stray \/ (stray' = stray \cup {DSP} /\ Leads(DSP) = "astray")
    BY <1>8 DEF hda_dsp_cl_boot_firmware, Prepare, Attempt, Return
  <2>4. Leads(DSP) = "astray" => prog = "sof" /\ offsets[DSP] = 0
    BY <2>2 DEF Leads, LeadsByQuery, LeadsByOffset
  <2>5. DSP \in Regions \ {HDA, SPIB}
    BY DEF DSP, Regions, HDA, SPIB
  <2> QED
    BY <1>2, <2>1, <2>3, <2>4, <2>5
<1>9. CASE Exit
  BY <1>2, <1>9 DEF Exit, sessionVars, walkVars, ioVars
<1>10. CASE UNCHANGED vars
  BY <1>10 DEF vars, sessionVars, driverVars, walkVars, ioVars, ReachInv, W!Found
<1> QED
  BY <1>3, <1>5, <1>6, <1>7, <1>8, <1>9, <1>10, Zenon DEF Next

\* What the program keeps true at every step, whatever is refused.
DriverInv ==
  /\ CallsInv /\ GrantedInv /\ RefusedInv /\ WriteInv
  /\ FlowInv /\ SlotInv /\ ReachInv /\ RegsInv /\ CountInv

LEMMA InitDriver == Init => DriverInv
  BY InitCalls, InitRefused, InitWrite, InitFlow, InitSlots, InitReach, InitRegs, InitCount
  DEF Init, DriverInv

LEMMA NextDriver == DriverInv /\ [Next]_vars => DriverInv'
  BY Steps, NextSession, NextRefused, RefusedStays, NextWrite, WriteStays, NextFlow, NextSlots,
     NextReach, NextRegs, NextCount
  DEF DriverInv

\* For every device and every list: a slot of info->offsets[] leads to what
\* it is used for, but for a region whose own query was refused.
THEOREM Reaches == Spec => []AccessesReach
<1>1. DriverInv => AccessesReach
  <2> SUFFICES ASSUME DriverInv PROVE AccessesReach
    OBVIOUS
  <2> USE DEF DriverInv
  <2>1. SPIB \notin stray
    BY DEF ReachInv
  <2>2. ASSUME NEW r \in stray
        PROVE  r \notin known /\ \A k \in W!Kinds : W!Slot[k] = r => W!Found(k) = {}
    <3>1. prog = "sof" /\ r \in Regions \ {HDA} /\ offsets[r] = 0
      BY DEF ReachInv
    <3> QED
      BY <3>1, SlotsLead
  <2>3. PP \in stray => W!Found("PP") = {}
    BY <2>2 DEF W!Slot, W!Kinds, PP
  <2>4. faults = 0 => /\ missed \subseteq {"PPCTL", "SPBFCTL"}
                      /\ "PPCTL" \in missed => W!Found("PP") = {}
                      /\ "SPBFCTL" \in missed => W!Found("SPIB") = {}
    BY DEF ReachInv
  <2> QED
    BY <2>1, <2>2, <2>3, <2>4 DEF AccessesReach
<1> QED
  BY InitDriver, NextDriver, <1>1, PTL DEF Spec

\* Every variable keeps its type, for every device and any number of refused
\* calls: the accesses still to be made among them.
THEOREM TypeCorrect == Spec => []TypeOK
<1>1. DriverInv => TypeOK
  <2> SUFFICES ASSUME DriverInv PROVE TypeOK
    OBVIOUS
  <2> USE DEF DriverInv
  <2>1. SessionTypeOK
    BY DEF CallsInv, RefusedInv, WriteInv, SlotInv, SessionTypeOK
  <2>2. todo \in Seq(AccessType)
    <3>1. Proper(offsets[SPIB] # 0) \subseteq AccessType
      BY DEF Proper
    <3> QED
      BY <3>1, SeqMonotonic DEF FlowInv
  <2>3. stray \subseteq Regions /\ missed \subseteq Registers
    BY DEF ReachInv
  <2>4. failed \in BOOLEAN
    BY DEF SlotInv, CountInv
  <2>5. offset \in Places \cup {0} /\ seen \subseteq Places \cup {0}
    BY DEF SlotInv, W!Words
  <2>6. /\ count \in 0..MaxCaps + 2 /\ phase \in {"preparing", "trying", "loading", "done"}
        /\ tries \in 0..Attempts /\ outcome \in {"none", "ok", "error"} /\ listed \in 0..Len(SdSts)
    BY DEF CountInv
  <2>7. pc \in {"session", "llch", "walk", "walked", "msi", "access", "exit"}
        /\ regs \in [Registers -> SUBSET Bits]
    BY DEF FlowInv, RegsInv
  <2> QED
    BY <2>1, <2>2, <2>3, <2>4, <2>5, <2>6, <2>7, Zenon DEF TypeOK, AccessType
<1> QED
  BY InitDriver, NextDriver, <1>1, PTL DEF Spec

-----------------------------------------------------------------------------
(* What the accesses leave behind: settings of single bits.                *)

Setting(reg, bit, on) == [reg |-> reg, bit |-> bit, value |-> IF on THEN {bit} ELSE {}]

\* The three kinds of gating, and what else is set up before the boot.
Gates(on) ==
  {Setting("CGCTL", "ADSPDCGE", on), Setting("EM2", "L1SEN", on),
   Setting("PGCTL", "ADSPPGD", ~on)}
Processing == {Setting("PPCTL", "GPROCEN", TRUE), Setting("PPCTL", "PIE", TRUE)}
Interrupts == {Setting("INTCTL", "GIE", TRUE), Setting("INTCTL", "CIE", TRUE)}
Decoupled == Setting("PPCTL", "PROCEN", TRUE)
ForBoot == Gates(FALSE) \cup Processing \cup Interrupts
Settings == Gates(TRUE) \cup ForBoot \cup {Decoupled}

\* A setting is in force; an access brings it about; an access keeps it.
Is(q) == regs[q.reg] \cap {q.bit} = q.value
Sets(a, q) ==
  a.op = "update" /\ a.reg = q.reg /\ q.bit \in a.mask /\ a.value \cap {q.bit} = q.value
Keeps(a, q) == a.reg = q.reg => a.op = "update" /\ q.bit \notin a.mask \cup a.value

\* The accesses before the b-th bring a setting about, or keep it.
Brings(s, b, q) ==
  \E j \in 1..b - 1 : Sets(s[j], q) /\ \A k \in j + 1..b - 1 : Keeps(s[k], q)
Leaves(s, b, q) == \A k \in 1..b - 1 : Keeps(s[k], q)

\* The setting will be in force when the b-th access is due, if its register
\* is reached.
Awaits(b, q) ==
  q.reg \in missed \/ Brings(todo, b, q) \/ (Is(q) /\ Leaves(todo, b, q))

\* The same of a whole list.
Ends(s, q) == Brings(s, Len(s) + 1, q)
Spares(s, q) == Leaves(s, Len(s) + 1, q)

LEMMA BringsTail ==
  ASSUME NEW S, NEW s \in Seq(S), s # <<>>, NEW b \in 2..Len(s) + 1, NEW q
  PROVE  /\ Brings(s, b, q) =>
              Brings(Tail(s), b - 1, q) \/ (Sets(Head(s), q) /\ Leaves(Tail(s), b - 1, q))
         /\ Leaves(s, b, q) => Keeps(Head(s), q) /\ Leaves(Tail(s), b - 1, q)
<1>1. /\ Len(Tail(s)) = Len(s) - 1 /\ Len(s) \in Nat \ {0} /\ Head(s) = s[1]
      /\ \A k \in 1..Len(Tail(s)) : Tail(s)[k] = s[k + 1]
  BY HeadTailProperties, EmptySeq, ToSetTail
<1>2. ASSUME NEW j \in 0..b - 1, \A k \in j + 1..b - 1 : Keeps(s[k], q),
             NEW k \in 1..(b - 1) - 1, k + 1 > j
      PROVE  Keeps(Tail(s)[k], q)
  <2>1. k \in 1..Len(Tail(s)) /\ k + 1 \in j + 1..b - 1
    BY <1>1, <1>2
  <2> QED
    BY <1>1, <1>2, <2>1
<1>3. ASSUME NEW j \in 1..b - 1, Sets(s[j], q), \A k \in j + 1..b - 1 : Keeps(s[k], q)
      PROVE  Brings(Tail(s), b - 1, q) \/ (Sets(Head(s), q) /\ Leaves(Tail(s), b - 1, q))
  <2>1. CASE j = 1
    <3>1. \A k \in 1..(b - 1) - 1 : Keeps(Tail(s)[k], q)
      BY <1>2, <1>3, <2>1
    <3> QED
      BY <1>1, <1>3, <2>1, <3>1 DEF Leaves
  <2>2. CASE j # 1
    <3>1. j - 1 \in 1..(b - 1) - 1 /\ j - 1 \in 1..Len(Tail(s)) /\ (j - 1) + 1 = j
      BY <1>1, <2>2
    <3>2. Sets(Tail(s)[j - 1], q)
      BY <1>1, <1>3, <3>1
    <3>3. \A k \in (j - 1) + 1..(b - 1) - 1 : k \in 1..(b - 1) - 1 /\ k + 1 > j
      BY <3>1
    <3>4. \A k \in (j - 1) + 1..(b - 1) - 1 : Keeps(Tail(s)[k], q)
      BY <1>2, <1>3, <3>3
    <3> QED
      BY <3>1, <3>2, <3>4 DEF Brings
  <2> QED
    BY <2>1, <2>2
<1>4. ASSUME Leaves(s, b, q) PROVE Keeps(Head(s), q) /\ Leaves(Tail(s), b - 1, q)
  <2>1. 0 \in 0..b - 1 /\ (\A k \in 0 + 1..b - 1 : Keeps(s[k], q)) /\ 1 \in 1..b - 1
    BY <1>4 DEF Leaves
  <2>2. \A k \in 1..(b - 1) - 1 : Keeps(Tail(s)[k], q)
    BY <1>2, <2>1
  <2> QED
    BY <1>1, <2>1, <2>2 DEF Leaves
<1> QED
  BY <1>3, <1>4 DEF Brings

LEMMA BringsConcat ==
  ASSUME NEW S, NEW s \in Seq(S), NEW t \in Seq(S), NEW q
  PROVE  /\ Ends(t, q) => Ends(s \o t, q)
         /\ Ends(s, q) /\ Spares(t, q) => Ends(s \o t, q)
         /\ Spares(s, q) /\ Spares(t, q) => Spares(s \o t, q)
         /\ Ends(s, q) => Brings(s \o t, Len(s) + 1, q)
         /\ Spares(s, q) => Leaves(s \o t, Len(s) + 1, q)
<1>1. /\ Len(s) \in Nat /\ Len(t) \in Nat /\ Len(s \o t) = Len(s) + Len(t)
      /\ \A k \in 1..Len(s) : (s \o t)[k] = s[k] /\ k \in 1..Len(s) + Len(t)
      /\ \A k \in Len(s) + 1..Len(s) + Len(t) : (s \o t)[k] = t[k - Len(s)]
  BY ConcatProperties, LenProperties
<1>2. ASSUME Spares(s, q) PROVE \A k \in 1..Len(s) : Keeps((s \o t)[k], q)
  BY <1>1, <1>2 DEF Spares, Leaves
<1>3. ASSUME Spares(t, q)
      PROVE  \A k \in Len(s) + 1..Len(s) + Len(t) : Keeps((s \o t)[k], q)
  <2> SUFFICES ASSUME NEW k \in Len(s) + 1..Len(s) + Len(t) PROVE Keeps((s \o t)[k], q)
    OBVIOUS
  <2>1. k - Len(s) \in 1..(Len(t) + 1) - 1
    BY <1>1
  <2> QED
    BY <1>1, <1>3, <2>1 DEF Spares, Leaves
<1>4. ASSUME Ends(t, q) PROVE Ends(s \o t, q)
  <2>1. PICK j \in 1..Len(t) : Sets(t[j], q) /\ \A k \in j + 1..Len(t) : Keeps(t[k], q)
    BY <1>1, <1>4 DEF Ends, Brings
  <2>2. Len(s) + j \in Len(s) + 1..Len(s) + Len(t) /\ (Len(s) + j) - Len(s) = j
    BY <1>1
  <2>3. Sets((s \o t)[Len(s) + j], q)
    BY <1>1, <2>1, <2>2
  <2>4. ASSUME NEW k \in Len(s) + j + 1..Len(s) + Len(t) PROVE Keeps((s \o t)[k], q)
    <3>1. k \in Len(s) + 1..Len(s) + Len(t) /\ k - Len(s) \in j + 1..Len(t)
      BY <1>1
    <3> QED
      BY <1>1, <2>1, <3>1
  <2>5. Len(s) + j \in 1..(Len(s \o t) + 1) - 1 /\ (Len(s \o t) + 1) - 1 = Len(s) + Len(t)
    BY <1>1
  <2> QED
    BY <2>3, <2>4, <2>5 DEF Ends, Brings
<1>5. ASSUME Ends(s, q)
      PROVE  \E j \in 1..Len(s) : Sets((s \o t)[j], q)
                                  /\ \A k \in j + 1..Len(s) : Keeps((s \o t)[k], q)
  <2>1. PICK j \in 1..Len(s) : Sets(s[j], q) /\ \A k \in j + 1..Len(s) : Keeps(s[k], q)
    BY <1>1, <1>5 DEF Ends, Brings
  <2>2. \A k \in j + 1..Len(s) : k \in 1..Len(s)
    BY <1>1
  <2> QED
    BY <1>1, <2>1, <2>2
<1>6. Ends(s, q) /\ Spares(t, q) => Ends(s \o t, q)
  <2> SUFFICES ASSUME Ends(s, q), Spares(t, q) PROVE Ends(s \o t, q)
    OBVIOUS
  <2>1. PICK j \in 1..Len(s) : Sets((s \o t)[j], q)
                               /\ \A k \in j + 1..Len(s) : Keeps((s \o t)[k], q)
    BY <1>5
  <2>2. \A k \in j + 1..Len(s) + Len(t) : k \in j + 1..Len(s) \/ k \in Len(s) + 1..Len(s) + Len(t)
    BY <1>1
  <2>3. \A k \in j + 1..Len(s) + Len(t) : Keeps((s \o t)[k], q)
    BY <1>3, <2>1, <2>2
  <2>4. j \in 1..(Len(s \o t) + 1) - 1 /\ (Len(s \o t) + 1) - 1 = Len(s) + Len(t)
    BY <1>1
  <2> QED
    BY <2>1, <2>3, <2>4 DEF Ends, Brings
<1>7. Spares(s, q) /\ Spares(t, q) => Spares(s \o t, q)
  <2> SUFFICES ASSUME Spares(s, q), Spares(t, q) PROVE Spares(s \o t, q)
    OBVIOUS
  <2>1. \A k \in 1..Len(s) + Len(t) : k \in 1..Len(s) \/ k \in Len(s) + 1..Len(s) + Len(t)
    BY <1>1
  <2>2. (Len(s \o t) + 1) - 1 = Len(s) + Len(t)
    BY <1>1
  <2> QED
    BY <1>2, <1>3, <2>1, <2>2 DEF Spares, Leaves
<1>8. (Len(s) + 1) - 1 = Len(s)
  BY <1>1
<1> QED
  BY <1>2, <1>4, <1>5, <1>6, <1>7, <1>8 DEF Brings, Leaves

LEMMA SettingFacts ==
  \A q \in Settings :
    /\ q.reg \in {"CGCTL", "EM2", "PGCTL", "PPCTL", "INTCTL"} /\ q.reg \in Registers
    /\ q.value \in SUBSET {q.bit}
    /\ q.reg = "PPCTL" => q \in Processing \cup {Decoupled}
    /\ q.reg = "INTCTL" => q \in Interrupts
  BY SharedRegisters DEF Settings, ForBoot, Gates, Processing, Interrupts, Decoupled, Setting,
     Registers

LEMMA SubSettings ==
  /\ Gates(TRUE) \subseteq Settings /\ ForBoot \subseteq Settings /\ Decoupled \in Settings
  /\ Gates(FALSE) \subseteq ForBoot /\ Processing \subseteq ForBoot /\ Interrupts \subseteq ForBoot
  BY Zenon DEF Settings, ForBoot

\* The gating's three accesses bring its three settings about and leave the
\* others alone.
LEMMA GatingSets ==
  ASSUME NEW enable \in BOOLEAN
  PROVE  /\ \A q \in Gates(enable) : Ends(hda_dsp_ctrl_clock_power_gating(enable), q)
         /\ \A q \in Processing \cup Interrupts :
              Spares(hda_dsp_ctrl_clock_power_gating(enable), q)
<1> DEFINE cgctl == Update(CONFIG, "CGCTL", {"ADSPDCGE"}, IF enable THEN {"ADSPDCGE"} ELSE {})
           em2 == Update(HDA, "EM2", {"L1SEN"}, IF enable THEN {"L1SEN"} ELSE {})
           pgctl == Update(CONFIG, "PGCTL", {"ADSPPGD"}, IF enable THEN {} ELSE {"ADSPPGD"})
           s == hda_dsp_ctrl_clock_power_gating(enable)
<1>1. cgctl.reg = "CGCTL" /\ em2.reg = "EM2" /\ pgctl.reg = "PGCTL"
  BY DEF Update, Access
<1>2. ASSUME NEW q \in Gates(enable)
      PROVE  (q.reg = "CGCTL" /\ Sets(cgctl, q)) \/ (q.reg = "EM2" /\ Sets(em2, q))
               \/ (q.reg = "PGCTL" /\ Sets(pgctl, q))
  <2>1. q \in {Setting("CGCTL", "ADSPDCGE", enable), Setting("EM2", "L1SEN", enable),
               Setting("PGCTL", "ADSPPGD", ~enable)}
    BY <1>2 DEF Gates
  <2>2. CASE q = Setting("CGCTL", "ADSPDCGE", enable)
    BY <2>2 DEF Setting, Sets, Update, Access
  <2>3. CASE q = Setting("EM2", "L1SEN", enable)
    BY <2>3 DEF Setting, Sets, Update, Access
  <2>4. CASE q = Setting("PGCTL", "ADSPPGD", ~enable)
    BY <2>4 DEF Setting, Sets, Update, Access
  <2> QED
    BY <2>1, <2>2, <2>3, <2>4
<1>3. s = <<cgctl, em2, pgctl>>
  BY DEF hda_dsp_ctrl_clock_power_gating
<1> HIDE DEF s, cgctl, em2, pgctl
<1>4. Len(s) = 3 /\ s[1] = cgctl /\ s[2] = em2 /\ s[3] = pgctl
  BY <1>3
<1>5. ASSUME NEW q \in Gates(enable) PROVE Ends(s, q)
  <2>1. \E j \in 1..3 : Sets(s[j], q) /\ \A k \in j + 1..3 : Keeps(s[k], q)
    BY <1>1, <1>2, <1>4, <1>5 DEF Keeps
  <2> QED
    BY <1>4, <2>1 DEF Ends, Brings
<1>6. ASSUME NEW q \in Processing \cup Interrupts PROVE Spares(s, q)
  <2>1. q.reg \in {"PPCTL", "INTCTL"}
    BY <1>6 DEF Processing, Interrupts, Setting
  <2>2. \A k \in 1..3 : Keeps(s[k], q)
    BY <1>1, <1>4, <2>1 DEF Keeps
  <2> QED
    BY <1>4, <2>2 DEF Spares, Leaves
<1> QED
  BY <1>5, <1>6 DEF s

\* Switching the processing on, and the two settings it is.
LEMMA PpcapSets ==
  /\ \A q \in Processing : Ends(hda_dsp_ctrl_ppcap, q)
  /\ \A q \in Interrupts : Spares(hda_dsp_ctrl_ppcap, q)
<1> DEFINE gprocen == Update(PP, "PPCTL", {"GPROCEN"}, {"GPROCEN"})
           pie == Update(PP, "PPCTL", {"PIE"}, {"PIE"})
           s == hda_dsp_ctrl_ppcap
<1>1. \A q \in Processing : Sets(pie, q) \/ (Sets(gprocen, q) /\ Keeps(pie, q))
  <2>1. Sets(pie, Setting("PPCTL", "PIE", TRUE))
    BY DEF Setting, Sets, Update, Access
  <2>2. Sets(gprocen, Setting("PPCTL", "GPROCEN", TRUE))
    BY DEF Setting, Sets, Update, Access
  <2>3. Keeps(pie, Setting("PPCTL", "GPROCEN", TRUE))
    BY DEF Setting, Keeps, Update, Access
  <2> QED
    BY <2>1, <2>2, <2>3 DEF Processing
<1>2. \A q \in Interrupts : Keeps(gprocen, q) /\ Keeps(pie, q)
  BY DEF Interrupts, Setting, Keeps, Update, Access
<1>3. s = <<gprocen, pie>>
  BY DEF hda_dsp_ctrl_ppcap
<1> HIDE DEF s, gprocen, pie
<1>4. Len(s) = 2 /\ s[1] = gprocen /\ s[2] = pie
  BY <1>3
<1>5. ASSUME NEW q \in Processing PROVE Ends(s, q)
  <2>1. \E j \in 1..2 : Sets(s[j], q) /\ \A k \in j + 1..2 : Keeps(s[k], q)
    BY <1>1, <1>4, <1>5
  <2> QED
    BY <1>4, <2>1 DEF Ends, Brings
<1>6. ASSUME NEW q \in Interrupts PROVE Spares(s, q)
  <2>1. \A k \in 1..2 : Keeps(s[k], q)
    BY <1>2, <1>4, <1>6
  <2> QED
    BY <1>4, <2>1 DEF Spares, Leaves
<1> QED
  BY <1>5, <1>6 DEF s

\* Preparing the stream decouples it and leaves the rest alone.
LEMMA PrepareSets ==
  /\ Ends(PrepareStream, Decoupled)
  /\ \A q \in ForBoot \cup Gates(TRUE) : Spares(PrepareStream, q) /\ Spares(<<Decouple>>, q)
<1> DEFINE spibe == Update(SPIB, "SPBFCTL", {"SPIBE"}, {"SPIBE"})
           dma == <<Decouple, Couple, Decouple>>
           S == {Decouple, Couple, spibe}
<1>1. Sets(Decouple, Decoupled) /\ Keeps(spibe, Decoupled)
  BY DEF Decoupled, Decouple, Setting, Sets, Keeps, Update, Access
<1>2. \A q \in ForBoot \cup Gates(TRUE) : Keeps(Decouple, q) /\ Keeps(Couple, q) /\ Keeps(spibe, q)
  BY DEF ForBoot, Gates, Processing, Interrupts, Setting, Keeps, Decouple, Couple, Update, Access
<1> HIDE DEF spibe
<1>3. dma \in Seq(S) /\ <<spibe>> \in Seq(S) /\ <<>> \in Seq(S)
  OBVIOUS
<1>4. /\ Len(dma) = 3 /\ dma[1] = Decouple /\ dma[2] = Couple /\ dma[3] = Decouple
      /\ Len(<<spibe>>) = 1 /\ <<spibe>>[1] = spibe /\ Len(<<>>) = 0
      /\ Len(<<Decouple>>) = 1 /\ <<Decouple>>[1] = Decouple
  OBVIOUS
<1> HIDE DEF dma
<1>5. Ends(dma, Decoupled)
  BY <1>1, <1>4 DEF Ends, Brings
<1>6. Spares(<<spibe>>, Decoupled) /\ \A q : Spares(<<>>, q)
  BY <1>1, <1>4 DEF Spares, Leaves
<1>7. ASSUME NEW q \in ForBoot \cup Gates(TRUE)
      PROVE  Spares(dma, q) /\ Spares(<<spibe>>, q) /\ Spares(<<Decouple>>, q)
  <2>1. Keeps(Decouple, q) /\ Keeps(Couple, q) /\ Keeps(spibe, q)
    BY <1>2
  <2>2. \A k \in 1..3 : Keeps(dma[k], q)
    BY <1>4, <2>1
  <2> QED
    BY <1>4, <2>1, <2>2 DEF Spares, Leaves
<1> HIDE DEF S
<1>8. CASE offsets[SPIB] # 0
  <2>1. PrepareStream = dma \o <<spibe>>
    BY <1>8 DEF PrepareStream, dma, spibe
  <2> QED
    BY <1>3, <1>5, <1>6, <1>7, <2>1, BringsConcat
<1>9. CASE ~(offsets[SPIB] # 0)
  <2>1. PrepareStream = dma \o <<>>
    BY <1>9 DEF PrepareStream, dma, spibe
  <2> QED
    BY <1>3, <1>5, <1>6, <1>7, <2>1, BringsConcat
<1> QED
  BY <1>8, <1>9

\* The probe switches the processing and the interrupts on.
LEMMA ProbeSets ==
  ASSUME NEW n \in 0..Len(SdSts),
         NEW q \in Processing \cup Interrupts
  PROVE  Ends(hda_dsp_probe(n), q)
<1> DEFINE S == Plain(TRUE)
           streams == ClearTcsel \o ClearStreams(n)
           enabled == streams \o EnableInterrupts
           based == enabled \o SetPosbuf
<1>1. /\ streams \in Seq(S) /\ EnableInterrupts \in Seq(S)
      /\ SetPosbuf \in Seq(S) /\ hda_dsp_ctrl_ppcap \in Seq(S)
  BY ProbeParts
<1>2. hda_dsp_probe(n) = based \o hda_dsp_ctrl_ppcap
  BY ProbeParts
<1> HIDE DEF S, streams
<1>3. enabled \in Seq(S)
  BY <1>1, ConcatProperties
<1> HIDE DEF enabled
<1>4. based \in Seq(S)
  BY <1>1, <1>3, ConcatProperties
<1> HIDE DEF based
<1>5. CASE q \in Processing
  BY <1>1, <1>2, <1>4, <1>5, PpcapSets, BringsConcat
<1>6. CASE q \in Interrupts
  <2>1. Ends(EnableInterrupts, q)
    <3> DEFINE intctl == Update(HDA, "INTCTL", {"CIE", "GIE"}, {"CIE", "GIE"})
    <3>1. Sets(intctl, q)
      <4>1. Sets(intctl, Setting("INTCTL", "GIE", TRUE))
        BY DEF Setting, Sets, Update, Access
      <4>2. Sets(intctl, Setting("INTCTL", "CIE", TRUE))
        BY DEF Setting, Sets, Update, Access
      <4> QED
        BY <1>6, <4>1, <4>2 DEF Interrupts
    <3> HIDE DEF intctl
    <3>2. Len(EnableInterrupts) = 3 /\ EnableInterrupts[3] = intctl
      BY DEF EnableInterrupts, intctl
    <3> QED
      BY <3>1, <3>2 DEF Ends, Brings
  <2>2. Spares(SetPosbuf, q)
    <3> DEFINE low == Write("DPLBASE", {"addr"})
               high == Write("DPUBASE", {})
    <3>1. Keeps(low, q) /\ Keeps(high, q)
      BY <1>6 DEF Interrupts, Setting, Keeps, Write, Access
    <3> HIDE DEF low, high
    <3>2. Len(<<low, high>>) = 2 /\ <<low, high>>[1] = low /\ <<low, high>>[2] = high
          /\ Len(<<>>) = 0
      OBVIOUS
    <3>3. Spares(<<low, high>>, q) /\ Spares(<<>>, q)
      BY <3>1, <3>2 DEF Spares, Leaves
    <3> QED
      BY <3>3 DEF SetPosbuf, low, high
  <2>3. Ends(enabled, q)
    BY <1>1, <2>1, BringsConcat DEF enabled
  <2>4. Ends(based, q)
    BY <1>1, <1>3, <2>2, <2>3, BringsConcat DEF based
  <2> QED
    BY <1>1, <1>2, <1>4, <1>6, <2>4, PpcapSets, BringsConcat
<1> QED
  BY <1>5, <1>6

\* What main() does before the boot, and that nothing of it is the boot.
BeforeBoot(n) == hda_dsp_probe(n) \o hda_dsp_ctrl_clock_power_gating(FALSE)

LEMMA MainSets ==
  ASSUME NEW n \in 0..Len(SdSts)
  PROVE  /\ \A q \in Gates(TRUE) : Ends(main(n), q)
         /\ \A q \in ForBoot : Ends(BeforeBoot(n), q)
<1> DEFINE spib == offsets[SPIB] # 0
           S == Plain(spib)
           T == Proper(spib)
           probe == hda_dsp_probe(n)
           on == hda_dsp_ctrl_clock_power_gating(TRUE)
           off == hda_dsp_ctrl_clock_power_gating(FALSE)
<1>1. /\ probe \in Seq(S) /\ on \in Seq(S) /\ off \in Seq(S)
  BY MainProper
<1>2. Seq(S) \subseteq Seq(T) /\ <<BootFirmware>> \in Seq(T)
  BY SeqMonotonic, BootProper DEF Plain
<1>3. /\ \A q \in Gates(TRUE) : Ends(on, q)
      /\ \A q \in Gates(FALSE) : Ends(off, q)
      /\ \A q \in Processing \cup Interrupts : Spares(off, q) /\ Ends(probe, q)
  BY GatingSets, ProbeSets
<1> HIDE DEF S, T, probe, on, off
<1> DEFINE before == probe \o off \o <<BootFirmware>>
<1>4. before \in Seq(T) /\ probe \in Seq(T) /\ off \in Seq(T) /\ on \in Seq(T)
  <2>1. probe \o off \in Seq(T)
    BY <1>1, <1>2, ConcatProperties
  <2> QED
    BY <1>1, <1>2, <2>1, ConcatProperties
<1>5. main(n) = before \o on
  BY DEF main, probe, off, on
<1>6. BeforeBoot(n) = probe \o off
  BY DEF BeforeBoot, probe, off
<1> HIDE DEF before
<1>7. ASSUME NEW q \in Gates(TRUE) PROVE Ends(main(n), q)
  <2>1. Ends(on, q)
    BY <1>3
  <2>2. Ends(before \o on, q)
    BY <1>4, <2>1, BringsConcat
  <2> QED
    BY <1>5, <2>2
<1>8. ASSUME NEW q \in ForBoot PROVE Ends(BeforeBoot(n), q)
  <2>1. CASE q \in Gates(FALSE)
    <3>1. Ends(off, q)
      BY <1>3, <2>1
    <3>2. Ends(probe \o off, q)
      BY <1>4, <3>1, BringsConcat
    <3> QED
      BY <1>6, <3>2
  <2>2. CASE q \in Processing \cup Interrupts
    <3>1. Ends(probe, q) /\ Spares(off, q)
      BY <1>3, <2>2
    <3>2. Ends(probe \o off, q)
      BY <1>4, <3>1, BringsConcat
    <3> QED
      BY <1>6, <3>2
  <2> QED
    BY <2>1, <2>2, Zenon DEF ForBoot
<1> QED
  BY <1>7, <1>8

\* The first boot of a list.
FirstBoot(s, b) ==
  b \in 1..Len(s) /\ s[b].op = "boot" /\ \A k \in 1..b - 1 : s[k].op # "boot"

LEMMA PlainOps ==
  ASSUME NEW spib, NEW s \in Seq(Plain(spib)) PROVE \A k \in 1..Len(s) : s[k].op # "boot"
  BY ElementOfSeq DEF Plain

LEMMA MainBoot ==
  ASSUME NEW n \in 0..Len(SdSts),
         NEW b, FirstBoot(main(n), b)
  PROVE  \A q \in ForBoot : Brings(main(n), b, q)
<1> DEFINE spib == offsets[SPIB] # 0
           S == Plain(spib)
           T == Proper(spib)
           s == BeforeBoot(n)
           on == hda_dsp_ctrl_clock_power_gating(TRUE)
           boot == <<BootFirmware>>
<1>1. s \in Seq(S)
  BY MainProper, ConcatProperties DEF BeforeBoot
<1>2. Seq(S) \subseteq Seq(T) /\ boot \in Seq(T)
  BY SeqMonotonic, BootProper DEF Plain
<1>3. on \in Seq(S) /\ \A k \in 1..Len(s) : s[k].op # "boot"
  BY <1>1, MainProper, PlainOps
<1>4. Len(boot) = 1 /\ boot[1].op = "boot"
  BY DEF BootFirmware, Access
<1>5. main(n) = s \o boot \o on /\ \A q \in ForBoot : Ends(s, q)
  BY MainSets DEF main, BeforeBoot
<1> HIDE DEF S, T, s, on, boot
<1> DEFINE start == s \o boot
<1>6. s \in Seq(T) /\ on \in Seq(T) /\ boot \in Seq(T) /\ Len(s) \in Nat /\ Len(on) \in Nat
  BY <1>1, <1>2, <1>3, LenProperties
<1>7. start \in Seq(T) /\ Len(start) = Len(s) + 1
  <2>1. start \in Seq(T) /\ Len(start) = Len(s) + Len(boot)
    BY <1>6, ConcatProperties
  <2> HIDE DEF start
  <2> QED
    BY <1>4, <2>1
<1>8. \A k \in 1..Len(s) : start[k] = s[k]
  BY <1>6, ConcatProperties
<1>9. start[Len(s) + 1] = boot[1]
  <2>1. Len(s) + 1 \in Len(s) + 1..Len(s) + Len(boot) /\ (Len(s) + 1) - Len(s) = 1
    BY <1>4, <1>6
  <2> QED
    BY <1>6, <2>1, ConcatProperties
<1>10. \A q \in ForBoot : Brings(start, Len(s) + 1, q)
  BY <1>5, <1>6, BringsConcat
<1> HIDE DEF start
<1> DEFINE m == start \o on
<1>11. m = main(n)
  BY <1>5 DEF start
<1>12. Len(m) = Len(s) + 1 + Len(on)
  <2>1. Len(m) = Len(start) + Len(on)
    BY <1>6, <1>7, ConcatProperties
  <2> HIDE DEF m
  <2> QED
    BY <1>7, <2>1
<1>13. \A k \in 1..Len(s) + 1 : m[k] = start[k]
  BY <1>6, <1>7, ConcatProperties
<1> HIDE DEF m
<1>14. b = Len(s) + 1
  <2>1. FirstBoot(m, b)
    BY <1>11
  <2>2. m[Len(s) + 1].op = "boot" /\ \A k \in 1..Len(s) : m[k].op # "boot"
    <3>1. Len(s) + 1 \in 1..Len(s) + 1 /\ \A k \in 1..Len(s) : k \in 1..Len(s) + 1
      BY <1>6
    <3>2. m[Len(s) + 1] = boot[1]
      BY <1>9, <1>13, <3>1
    <3>3. ASSUME NEW k \in 1..Len(s) PROVE m[k] = s[k]
      BY <1>8, <1>13, <3>1
    <3> QED
      BY <1>3, <1>4, <3>2, <3>3
  <2>3. b \in 1..Len(s) + 1 + Len(on) /\ b \notin 1..Len(s) /\ Len(s) + 1 \notin 1..b - 1
    BY <1>12, <2>1, <2>2 DEF FirstBoot
  <2> QED
    BY <1>6, <2>3
<1>15. ASSUME NEW q \in ForBoot PROVE Brings(m, b, q)
  <2>1. PICK j \in 1..Len(s) : Sets(start[j], q) /\ \A k \in j + 1..Len(s) : Keeps(start[k], q)
    BY <1>6, <1>10, <1>15 DEF Brings
  <2>2. j \in 1..Len(s) + 1 /\ \A k \in j + 1..Len(s) : k \in 1..Len(s) + 1
    BY <1>6
  <2>3. Sets(m[j], q) /\ \A k \in j + 1..Len(s) : Keeps(m[k], q)
    BY <1>13, <2>1, <2>2
  <2>4. b - 1 = Len(s)
    BY <1>6, <1>14
  <2> QED
    BY <2>3, <2>4 DEF Brings
<1> QED
  BY <1>11, <1>15

\* What the next access makes of a setting that was on its way.
LEMMA AccessAwaits ==
  ASSUME FlowInv, RegsInv, NEW a, Done(a) \/ Fails(a) \/ Strays(a),
         NEW q \in Settings, NEW b \in 2..Len(todo) + 1, Awaits(b, q)
  PROVE  Awaits(b - 1, q)'
<1>1. NextAccess(a)
  BY DEF Done, Fails, Strays
<1>2. a = Head(todo) /\ todo # <<>> /\ todo' = Tail(todo)
  BY <1>1 DEF NextAccess
<1>3. /\ Brings(todo, b, q) =>
           Brings(todo', b - 1, q) \/ (Sets(a, q) /\ Leaves(todo', b - 1, q))
      /\ Leaves(todo, b, q) => Keeps(a, q) /\ Leaves(todo', b - 1, q)
  BY <1>2, BringsTail DEF FlowInv
<1>4. /\ a.reg \in Registers /\ q.reg \in Registers
      /\ regs \in [Registers -> SUBSET Bits]
  BY <1>1, NextIsProper, SettingFacts DEF Proper, AccessType, RegsInv
<1>5. CASE Done(a)
  <2>1. missed' = missed /\ regs'[q.reg] = IF a.reg = q.reg THEN Written(a, regs[q.reg])
                                                          ELSE regs[q.reg]
    BY <1>4, <1>5 DEF Done
  <2>2. Sets(a, q) => Is(q)'
    BY <2>1 DEF Sets, Is, Written
  <2>3. Keeps(a, q) /\ Is(q) => Is(q)'
    BY <2>1 DEF Keeps, Is, Written
  <2> QED
    BY <1>3, <2>1, <2>2, <2>3 DEF Awaits
<1>6. CASE Fails(a) \/ Strays(a)
  <2>1. missed' = missed \cup {a.reg}
        /\ (regs' = regs \/ regs' = [regs EXCEPT ![a.reg] = a.value])
    BY <1>6 DEF Fails, Strays
  <2>2. a.reg = q.reg => q.reg \in missed'
    BY <2>1
  <2>3. a.reg # q.reg => Is(q)' = Is(q) /\ ~Sets(a, q)
    <3>1. a.reg # q.reg => regs'[q.reg] = regs[q.reg]
      BY <1>4, <2>1
    <3> QED
      BY <3>1 DEF Is, Sets
  <2> QED
    BY <1>3, <2>1, <2>2, <2>3 DEF Awaits
<1> QED
  BY <1>5, <1>6

\* While main() makes its accesses, its gating stays on its way.
GateInv ==
  prog = "sof" /\ pc \in {"msi", "access", "exit"} =>
    \A b \in Nat : b = Len(todo) + 1 => \A q \in Gates(TRUE) : Awaits(b, q)

\* A call of the boot comes first in what is left to do.
LEMMA AtBoot ==
  ASSUME FlowInv, hda_dsp_cl_boot_firmware
  PROVE  /\ todo \in Seq(Proper(offsets[SPIB] # 0)) /\ Len(todo) \in Nat \ {0}
         /\ Head(todo) = todo[1] /\ todo[1].op = "boot" /\ FirstBoot(todo, 1)
         /\ pc = "access" /\ pc' = pc /\ UNCHANGED <<prog, regs, missed>>
<1>1. /\ todo \in Seq(Proper(offsets[SPIB] # 0)) /\ todo # <<>> /\ Head(todo).op = "boot"
      /\ pc = "access" /\ UNCHANGED <<prog, pc, regs, missed>>
  BY DEF FlowInv, hda_dsp_cl_boot_firmware, sessionVars
<1>2. Len(todo) \in Nat \ {0} /\ Head(todo) = todo[1]
  BY <1>1, EmptySeq, LenProperties
<1> QED
  BY <1>1, <1>2 DEF FirstBoot

LEMMA NextGate == FlowInv /\ CountInv /\ RegsInv /\ GateInv /\ [Next]_vars => GateInv'
<1> SUFFICES ASSUME FlowInv, CountInv, RegsInv, GateInv, [Next]_vars,
                    NEW b \in Nat, prog' = "sof", pc' \in {"msi", "access", "exit"},
                    b = Len(todo') + 1, NEW q \in Gates(TRUE)
             PROVE  Awaits(b, q)'
  BY DEF GateInv
<1>1. q \in Settings
  BY SubSettings
<1>2. ASSUME UNCHANGED <<prog, todo, regs, missed>>, pc \in {"msi", "access", "exit"}
      PROVE  Awaits(b, q)'
  <2>1. Awaits(b, q)
    BY <1>2 DEF GateInv
  <2> QED
    BY <1>2, <2>1 DEF Awaits, Is
<1>3. CASE Session \/ SessionOver \/ hda_dsp_ctrl_get_caps
  <2>1. pc' \notin {"msi", "access", "exit"} \/ prog' # "sof"
    BY <1>3 DEF Session, driverVars, SessionOver, sessionVars, hda_dsp_ctrl_get_caps,
       W!ReadStart, W!StartFails, W!Start, W!ReadHeader, W!HeaderFails, W!Visit
  <2> QED
    BY <2>1
<1>4. CASE hda_dsp_stream_init
  <2>1. todo' = main(listed')
    BY <1>4 DEF hda_dsp_stream_init
  <2>2. listed' \in 0..Len(SdSts)
    <3>1. Len(SdSts) \in Nat
      BY SdStsAssumption, LenProperties
    <3> QED
      BY <1>4, <3>1 DEF hda_dsp_stream_init, CountInv
  <2>3. Ends(todo', q)
    BY <2>1, <2>2, MainSets
  <2> QED
    BY <2>3 DEF Awaits, Ends
<1>5. CASE irq_enable
  BY <1>2, <1>5 DEF irq_enable, ioVars
<1>6. ASSUME NEW a, Done(a) \/ Fails(a) \/ Strays(a) PROVE Awaits(b, q)'
  <2>1. /\ prog' = prog /\ pc = "access" /\ todo' = Tail(todo)
        /\ todo \in Seq(Proper(offsets[SPIB] # 0)) /\ todo # <<>>
    BY <1>6 DEF Done, Fails, Strays, NextAccess, FlowInv
  <2>2. Len(todo) \in Nat \ {0} /\ Len(todo') = Len(todo) - 1
    BY <2>1, EmptySeq, LenProperties, HeadTailProperties
  <2>3. b + 1 = Len(todo) + 1 /\ b + 1 \in 2..Len(todo) + 1 /\ (b + 1) - 1 = b
    BY <2>2
  <2> DEFINE c == b + 1
  <2>4. c \in Nat /\ c = Len(todo) + 1 /\ c \in 2..Len(todo) + 1 /\ c - 1 = b
    BY <2>3
  <2> HIDE DEF c
  <2>5. Awaits(c, q)
    BY <2>1, <2>4 DEF GateInv
  <2>6. Awaits(c - 1, q)'
    BY <1>1, <1>6, <2>4, <2>5, AccessAwaits
  <2> QED
    BY <2>4, <2>6
<1>7. CASE hda_dsp_cl_boot_firmware
  <2> DEFINE S == Proper(offsets[SPIB] # 0)
             c == Len(todo) + 1
  <2>1. /\ todo \in Seq(S) /\ Len(todo) \in Nat \ {0} /\ Head(todo).op = "boot"
        /\ pc = "access" /\ UNCHANGED <<prog, regs, missed>>
    BY <1>7, AtBoot
  <2>2. \/ todo' \in {todo, Tail(todo)}
        \/ \E s \in {PrepareStream, <<Decouple>>} : todo' = s \o todo
    BY <1>7 DEF hda_dsp_cl_boot_firmware, Prepare, Attempt, Return
  <2>3. \A s \in {PrepareStream, <<Decouple>>} : s \in Seq(S) /\ Spares(s, q)
    BY PrepareProper, PrepareSets
  <2>4. c \in 2..Len(todo) + 1 /\ c \in Nat
    BY <2>1
  <2>5. Awaits(c, q)
    BY <2>1, <2>4 DEF GateInv
  <2> HIDE DEF S
  <2>6. CASE todo' = todo
    BY <1>2, <2>1, <2>6
  <2>7. CASE todo' = Tail(todo)
    <3>1. todo # <<>> /\ b = c - 1
      BY <2>1, <2>7, EmptySeq, HeadTailProperties
    <3>2. Brings(todo, c, q) => Brings(todo', b, q) \/ (Sets(Head(todo), q) /\ Leaves(todo', b, q))
      BY <2>1, <2>4, <2>7, <3>1, BringsTail
    <3>3. Leaves(todo, c, q) => Leaves(todo', b, q)
      BY <2>1, <2>4, <2>7, <3>1, BringsTail
    <3>4. ~Sets(Head(todo), q)
      BY <2>1 DEF Sets
    <3> QED
      BY <2>1, <2>5, <3>2, <3>3, <3>4 DEF Awaits, Is
  <2>8. ASSUME NEW s \in {PrepareStream, <<Decouple>>}, todo' = s \o todo
        PROVE  Awaits(b, q)'
    <3>1. Ends(todo, q) => Ends(todo', q)
      BY <2>1, <2>3, <2>8, BringsConcat
    <3>2. Spares(todo, q) => Spares(todo', q)
      BY <2>1, <2>3, <2>8, BringsConcat
    <3> QED
      BY <2>1, <2>5, <3>1, <3>2 DEF Awaits, Is, Ends, Spares
  <2> QED
    BY <2>2, <2>6, <2>7, <2>8
<1>8. CASE Exit
  BY <1>2, <1>8 DEF Exit, sessionVars, ioVars
<1>9. CASE UNCHANGED vars
  BY <1>2, <1>9 DEF vars, sessionVars, driverVars, ioVars
<1> QED
  BY <1>3, <1>4, <1>5, <1>6, <1>7, <1>8, <1>9, Zenon DEF Next

\* For every device, every list and any number of refused calls and
\* accesses: however the boot ended, main() leaves with the gating on, in
\* every register it reached each time.
THEOREM Restores == Spec => []GatingRestored
<1>1. Init => GateInv
  BY DEF Init, GateInv
<1>2. DriverInv /\ GateInv => GatingRestored
  <2> SUFFICES ASSUME DriverInv, GateInv, pc = "exit", prog = "sof" PROVE Gated(TRUE)
    BY Zenon DEF GatingRestored
  <2>1. Len(todo) + 1 = 1
    BY DEF DriverInv, FlowInv
  <2>2. ASSUME NEW q \in Gates(TRUE) PROVE q.reg \in missed \/ Is(q)
    <3>1. Awaits(1, q)
      BY <2>1 DEF GateInv
    <3>2. ~Brings(todo, 1, q)
      BY DEF Brings
    <3> QED
      BY <3>1, <3>2 DEF Awaits
  <2>3. "CGCTL" \in missed \/ "ADSPDCGE" \in regs["CGCTL"]
    <3>1. Setting("CGCTL", "ADSPDCGE", TRUE) \in Gates(TRUE)
      BY DEF Gates
    <3> QED
      BY <2>2, <3>1 DEF Is, Setting
  <2>4. "EM2" \in missed \/ "L1SEN" \in regs["EM2"]
    <3>1. Setting("EM2", "L1SEN", TRUE) \in Gates(TRUE)
      BY DEF Gates
    <3> QED
      BY <2>2, <3>1 DEF Is, Setting
  <2>5. "PGCTL" \in missed \/ "ADSPPGD" \notin regs["PGCTL"]
    <3>1. [reg |-> "PGCTL", bit |-> "ADSPPGD", value |-> {}] \in Gates(TRUE)
      BY DEF Gates, Setting
    <3> QED
      BY <2>2, <3>1 DEF Is
  <2> QED
    BY <2>3, <2>4, <2>5 DEF Gated
<1>3. DriverInv /\ GateInv /\ [Next]_vars => GateInv'
  BY NextGate DEF DriverInv
<1> QED
  BY InitDriver, NextDriver, <1>1, <1>2, <1>3, PTL DEF Spec

\* Before the boot nothing of it has happened; only main() calls it; and when
\* its call is due, all that is to be set up for it is in force.
ReadyInv ==
  /\ pc \notin {"access", "exit"} => phase = "preparing"
  /\ prog # "sof" => \A k \in 1..Len(todo) : todo[k].op # "boot"
  /\ pc \in {"msi", "access"} /\ phase # "done" =>
       \A b \in Nat : FirstBoot(todo, b) =>
         /\ \A q \in ForBoot : Awaits(b, q)
         /\ phase # "preparing" => Awaits(b, Decoupled)

LEMMA FirstBootTail ==
  ASSUME NEW S, NEW s \in Seq(S), s # <<>>, Head(s).op # "boot",
         NEW b \in Nat, FirstBoot(Tail(s), b)
  PROVE  FirstBoot(s, b + 1) /\ b + 1 \in 2..Len(s) + 1
<1>1. /\ Len(Tail(s)) = Len(s) - 1 /\ Len(s) \in Nat \ {0} /\ Head(s) = s[1]
      /\ \A k \in 1..Len(Tail(s)) : Tail(s)[k] = s[k + 1]
  BY HeadTailProperties, EmptySeq, ToSetTail
<1>2. b \in 1..Len(Tail(s)) /\ Tail(s)[b].op = "boot"
      /\ \A k \in 1..b - 1 : Tail(s)[k].op # "boot"
  BY DEF FirstBoot
<1>3. b + 1 \in 2..Len(s) /\ s[b + 1].op = "boot"
  BY <1>1, <1>2
<1>4. ASSUME NEW k \in 1..(b + 1) - 1 PROVE s[k].op # "boot"
  <2>1. CASE k = 1
    BY <1>1, <2>1
  <2>2. CASE k # 1
    <3>1. k - 1 \in 1..b - 1 /\ k - 1 \in 1..Len(Tail(s)) /\ (k - 1) + 1 = k
      BY <1>1, <1>2, <2>2
    <3>2. Tail(s)[k - 1] = s[k]
      BY <1>1, <3>1
    <3> QED
      BY <1>2, <3>1, <3>2
  <2> QED
    BY <2>1, <2>2
<1> QED
  BY <1>1, <1>3, <1>4 DEF FirstBoot

\* The stream's preparation comes before the boot that asked for it.
LEMMA FirstBootPrepared ==
  ASSUME NEW S, NEW s \in Seq(S), NEW t \in Seq(S), Len(t) \in Nat \ {0}, t[1].op = "boot",
         \A k \in 1..Len(s) : s[k].op # "boot", NEW b \in Nat, FirstBoot(s \o t, b)
  PROVE  b = Len(s) + 1
<1>1. Len(s) \in Nat /\ Len(s \o t) = Len(s) + Len(t)
  BY ConcatProperties, LenProperties
<1>2. ASSUME NEW k \in 1..Len(s) PROVE (s \o t)[k].op # "boot"
  BY <1>1, ConcatProperties
<1>3. (s \o t)[Len(s) + 1].op = "boot"
  <2>1. Len(s) + 1 \in 1..Len(s) + Len(t) /\ ~(Len(s) + 1 <= Len(s))
        /\ (Len(s) + 1) - Len(s) = 1
    BY <1>1
  <2>2. (s \o t)[Len(s) + 1] = t[1]
    BY <2>1, ConcatProperties
  <2> QED
    BY <2>2
<1>4. b \in 1..Len(s) + Len(t) /\ b \notin 1..Len(s) /\ Len(s) + 1 \notin 1..b - 1
  BY <1>1, <1>2, <1>3 DEF FirstBoot
<1> QED
  BY <1>1, <1>4

LEMMA NextReady == FlowInv /\ CountInv /\ RegsInv /\ ReadyInv /\ [Next]_vars => ReadyInv'
<1> SUFFICES ASSUME FlowInv, CountInv, RegsInv, ReadyInv, [Next]_vars PROVE ReadyInv'
  OBVIOUS
<1> DEFINE Due(b) == /\ \A q \in ForBoot : Awaits(b, q)'
                     /\ phase' # "preparing" => Awaits(b, Decoupled)'
<1>1. ASSUME UNCHANGED <<prog, phase, todo, regs, missed>>,
             pc' = pc \/ (pc = "msi" /\ pc' = "access") \/ pc' = "exit"
                \/ {pc, pc'} \cap {"msi", "access", "exit"} = {}
      PROVE  ReadyInv'
  <2>1. ASSUME pc' \in {"msi", "access"}, phase' # "done", NEW b \in Nat, FirstBoot(todo', b)
        PROVE  Due(b)
    <3>1. pc \in {"msi", "access"} /\ phase # "done" /\ FirstBoot(todo, b)
      BY <1>1, <2>1
    <3>2. \A q \in ForBoot \cup {Decoupled} : Awaits(b, q) => Awaits(b, q)'
      BY <1>1 DEF Awaits, Is
    <3> QED
      BY <1>1, <3>1, <3>2 DEF ReadyInv
  <2>2. pc' \notin {"access", "exit"} => phase' = "preparing"
    BY <1>1 DEF ReadyInv
  <2>3. prog' # "sof" => \A k \in 1..Len(todo') : todo'[k].op # "boot"
    BY <1>1 DEF ReadyInv
  <2> QED
    BY <2>1, <2>2, <2>3 DEF ReadyInv
<1>2. CASE Session
  BY <1>1, <1>2 DEF Session, SessionNext, Granted, Refused, Call, Region, NoRegions, driverVars,
     bootVars, ioVars
<1>3. CASE SessionOver
  <2>1. /\ pc = "session" /\ pc' = IF prog = "sof" THEN "llch" ELSE "access"
        /\ todo' = IF prog = "boot" THEN vfio_boot_main ELSE <<>>
        /\ UNCHANGED <<prog, phase>>
    BY <1>3 DEF SessionOver, sessionVars, bootVars
  <2>2. \A k \in 1..Len(vfio_boot_main) : vfio_boot_main[k].op # "boot"
    BY DEF vfio_boot_main, Update, Access
  <2>3. \A k \in 1..Len(todo') : todo'[k].op # "boot"
    BY <2>1, <2>2
  <2>4. \A b \in Nat : ~FirstBoot(todo', b)
    BY <2>3 DEF FirstBoot
  <2>5. pc' \notin {"access", "exit"} => phase' = "preparing"
    BY <2>1 DEF ReadyInv
  <2> QED
    BY <2>3, <2>4, <2>5 DEF ReadyInv
<1>4. CASE hda_dsp_ctrl_get_caps
  BY <1>1, <1>4 DEF hda_dsp_ctrl_get_caps, bootVars, ioVars, W!ReadStart, W!StartFails, W!Start,
     W!ReadHeader, W!HeaderFails, W!Visit
<1>5. CASE hda_dsp_stream_init
  <2>1. /\ pc = "walked" /\ pc' = "msi" /\ todo' = main(listed')
        /\ UNCHANGED <<prog, phase>>
    BY <1>5 DEF hda_dsp_stream_init, bootVars
  <2>2. prog = "sof" /\ phase = "preparing"
    BY <2>1 DEF FlowInv, ReadyInv
  <2>3. listed' \in 0..Len(SdSts)
    <3>1. Len(SdSts) \in Nat
      BY SdStsAssumption, LenProperties
    <3> QED
      BY <1>5, <3>1 DEF hda_dsp_stream_init, CountInv
  <2>4. ASSUME NEW b \in Nat, FirstBoot(todo', b) PROVE Due(b)
    <3>1. PICK n \in 0..Len(SdSts) : todo' = main(n)
      BY <2>1, <2>3
    <3>2. FirstBoot(main(n), b)
      BY <2>4, <3>1
    <3>3. \A q \in ForBoot : Brings(main(n), b, q)
      BY <3>2, MainBoot
    <3> QED
      BY <2>1, <2>2, <3>1, <3>3 DEF Awaits
  <2> QED
    BY <2>1, <2>2, <2>4 DEF ReadyInv
<1>6. CASE irq_enable
  BY <1>1, <1>6 DEF irq_enable, bootVars, ioVars
<1>7. ASSUME NEW a, Done(a) \/ Fails(a) \/ Strays(a) PROVE ReadyInv'
  <2> DEFINE S == Proper(offsets[SPIB] # 0)
  <2>1. /\ UNCHANGED <<prog, pc, phase>> /\ pc = "access" /\ todo' = Tail(todo)
        /\ todo \in Seq(S) /\ todo # <<>> /\ Head(todo).op # "boot"
    BY <1>7 DEF Done, Fails, Strays, NextAccess, FlowInv, bootVars
  <2> HIDE DEF S
  <2>2. ASSUME phase # "done", NEW b \in Nat, FirstBoot(todo', b) PROVE Due(b)
    <3> DEFINE c == b + 1
    <3>1. FirstBoot(todo, c) /\ c \in 2..Len(todo) + 1
      BY <2>1, <2>2, FirstBootTail
    <3>2. c - 1 = b /\ c \in Nat
      OBVIOUS
    <3> HIDE DEF c
    <3>3. (\A q \in ForBoot : Awaits(c, q)) /\ (phase # "preparing" => Awaits(c, Decoupled))
      BY <2>1, <2>2, <3>1, <3>2 DEF ReadyInv
    <3>4. ASSUME NEW q \in Settings, Awaits(c, q) PROVE Awaits(b, q)'
      <4>1. Awaits(c - 1, q)'
        BY <1>7, <3>1, <3>4, AccessAwaits
      <4> QED
        BY <3>2, <4>1
    <3>5. ForBoot \subseteq Settings /\ Decoupled \in Settings
      BY SubSettings
    <3> QED
      BY <2>1, <3>3, <3>4, <3>5
  <2>3. ASSUME prog # "sof", NEW k \in 1..Len(todo') PROVE todo'[k].op # "boot"
    <3>1. k + 1 \in 1..Len(todo) /\ todo'[k] = todo[k + 1]
      BY <2>1, HeadTailProperties, EmptySeq, ToSetTail
    <3> QED
      BY <2>3, <3>1 DEF ReadyInv
  <2> QED
    BY <2>1, <2>2, <2>3 DEF ReadyInv
<1>8. CASE hda_dsp_cl_boot_firmware
  <2> DEFINE S == Proper(offsets[SPIB] # 0)
  <2>1. /\ todo \in Seq(S) /\ Len(todo) \in Nat \ {0} /\ todo[1].op = "boot"
        /\ FirstBoot(todo, 1) /\ pc = "access" /\ pc' = pc /\ UNCHANGED <<prog, regs, missed>>
    BY <1>8, AtBoot
  <2>2. prog = "sof"
    BY <2>1 DEF ReadyInv
  <2>3. ASSUME phase # "done", NEW q, Awaits(1, q) PROVE q.reg \in missed \/ Is(q)
    <3>1. ~Brings(todo, 1, q)
      BY DEF Brings
    <3> QED
      BY <2>3, <3>1 DEF Awaits
  <2> SUFFICES ASSUME phase' # "done", NEW b \in Nat, FirstBoot(todo', b) PROVE Due(b)
    BY <2>1, <2>2 DEF ReadyInv
  <2>4. CASE Prepare
    <3>1. phase = "preparing" /\ todo' = PrepareStream \o todo
      BY <2>4 DEF Prepare, B!Prepare
    <3>2. PrepareStream \in Seq(S) /\ \A k \in 1..Len(PrepareStream) : PrepareStream[k].op # "boot"
      BY PrepareProper, PlainOps
    <3> HIDE DEF S
    <3>3. b = Len(PrepareStream) + 1
      BY <2>1, <3>1, <3>2, FirstBootPrepared
    <3>4. Awaits(b, Decoupled)'
      <4>1. Brings(todo', b, Decoupled)
        BY <2>1, <3>1, <3>2, <3>3, PrepareSets, BringsConcat
      <4> QED
        BY <4>1 DEF Awaits
    <3>5. ASSUME NEW q \in ForBoot PROVE Awaits(b, q)'
      <4>1. q.reg \in missed \/ Is(q)
        BY <2>1, <2>3, <3>1 DEF ReadyInv
      <4>2. Leaves(todo', b, q)
        BY <2>1, <3>1, <3>2, <3>3, PrepareSets, BringsConcat
      <4> QED
        BY <2>1, <4>1, <4>2 DEF Awaits, Is
    <3> QED
      BY <3>4, <3>5
  <2>5. CASE Attempt
    <3>1. phase \in {"trying", "loading"} /\ todo' = todo
      BY <2>5 DEF Attempt, B!TryFails, B!TrySucceeds, B!Load
    <3>2. \A q \in ForBoot \cup {Decoupled} : Awaits(b, q)
      BY <2>1, <3>1 DEF ReadyInv
    <3> QED
      BY <2>1, <3>1, <3>2 DEF Awaits, Is
  <2>6. CASE Return
    BY <2>6 DEF Return, bootVars
  <2> QED
    BY <1>8, <2>4, <2>5, <2>6 DEF hda_dsp_cl_boot_firmware
<1>9. CASE Exit
  BY <1>1, <1>9 DEF Exit, sessionVars, bootVars, ioVars
<1>10. CASE UNCHANGED vars
  BY <1>1, <1>10 DEF vars, sessionVars, driverVars, bootVars, ioVars
<1> QED
  BY <1>2, <1>3, <1>4, <1>5, <1>6, <1>7, <1>8, <1>9, <1>10, Zenon DEF Next

\* For every device, every list and any number of refused calls and
\* accesses: the boot finds the gating off and the processing, the interrupts
\* and its stream's DMA as they were set up, in every register that was
\* reached each time.
THEOREM Ready == Spec => []ReadyToBoot
<1>1. Init => ReadyInv
  <2> SUFFICES ASSUME Init PROVE ReadyInv
    OBVIOUS
  <2>1. todo = <<>> /\ Len(todo) = 0 /\ phase = "preparing"
    BY DEF Init, B!Init
  <2> QED
    BY <2>1 DEF ReadyInv, FirstBoot
<1>2. DriverInv /\ ReadyInv => ReadyToBoot
  <2> SUFFICES ASSUME DriverInv, ReadyInv, pc = "access", todo # <<>>, Head(todo).op = "boot",
                      phase \in {"trying", "loading"}
               PROVE  /\ Gated(FALSE)
                      /\ "PPCTL" \in missed \/ {"GPROCEN", "PIE", "PROCEN"} \subseteq regs["PPCTL"]
                      /\ "INTCTL" \in missed \/ {"GIE", "CIE"} \subseteq regs["INTCTL"]
    BY Zenon DEF ReadyToBoot
  <2>1. FirstBoot(todo, 1)
    <3>1. todo \in Seq(Proper(offsets[SPIB] # 0))
      BY DEF DriverInv, FlowInv
    <3>2. Len(todo) \in Nat \ {0} /\ Head(todo) = todo[1]
      BY <3>1, EmptySeq, LenProperties
    <3> QED
      BY <3>2 DEF FirstBoot
  <2>2. ASSUME NEW q \in ForBoot \cup {Decoupled} PROVE q.reg \in missed \/ Is(q)
    <3>1. Awaits(1, q) /\ ~Brings(todo, 1, q)
      BY <2>1 DEF ReadyInv, Brings
    <3> QED
      BY <3>1 DEF Awaits
  <2>3. "CGCTL" \in missed \/ "ADSPDCGE" \notin regs["CGCTL"]
    <3>1. [reg |-> "CGCTL", bit |-> "ADSPDCGE", value |-> {}] \in ForBoot
      BY DEF ForBoot, Gates, Setting
    <3> QED
      BY <2>2, <3>1 DEF Is
  <2>4. "EM2" \in missed \/ "L1SEN" \notin regs["EM2"]
    <3>1. [reg |-> "EM2", bit |-> "L1SEN", value |-> {}] \in ForBoot
      BY DEF ForBoot, Gates, Setting
    <3> QED
      BY <2>2, <3>1 DEF Is
  <2>5. "PGCTL" \in missed \/ "ADSPPGD" \in regs["PGCTL"]
    <3>1. [reg |-> "PGCTL", bit |-> "ADSPPGD", value |-> {"ADSPPGD"}] \in ForBoot
      BY DEF ForBoot, Gates, Setting
    <3> QED
      BY <2>2, <3>1 DEF Is
  <2>6. ASSUME NEW reg, NEW bit, Setting(reg, bit, TRUE) \in ForBoot \cup {Decoupled}
        PROVE  reg \in missed \/ bit \in regs[reg]
    BY <2>2, <2>6 DEF Is, Setting
  <2>7. "PPCTL" \in missed \/ {"GPROCEN", "PIE", "PROCEN"} \subseteq regs["PPCTL"]
    BY <2>6 DEF ForBoot, Processing, Decoupled
  <2>8. "INTCTL" \in missed \/ {"GIE", "CIE"} \subseteq regs["INTCTL"]
    BY <2>6 DEF ForBoot, Interrupts
  <2>9. Gated(FALSE)
    BY <2>3, <2>4, <2>5 DEF Gated
  <2> QED
    BY <2>7, <2>8, <2>9
<1>3. DriverInv /\ ReadyInv /\ [Next]_vars => ReadyInv'
  BY NextReady DEF DriverInv
<1> QED
  BY InitDriver, NextDriver, <1>1, <1>2, <1>3, PTL DEF Spec

-----------------------------------------------------------------------------
(* Interrupts are enabled behind the clearing of what was pending.         *)

Wiped(s, b, r) == \E j \in 1..b - 1 : s[j].op = "clear" /\ s[j].reg = r
Quiet(s) == \A k \in 1..Len(s) : s[k].reg # "INTCTL"

\* Before an access to INTCTL the list clears what is not in clear already.
Guarded(s, clear) ==
  \A k \in 1..Len(s) : s[k].reg = "INTCTL" => \A r \in Status : r \in clear \/ Wiped(s, k, r)

LEMMA GuardedTail ==
  ASSUME NEW S, NEW s \in Seq(S), s # <<>>, NEW clear, Guarded(s, clear),
         NEW after, clear \subseteq after,
         Head(s).op = "clear" /\ Head(s).reg \in Status => Head(s).reg \in after
  PROVE  Guarded(Tail(s), after)
<1>1. /\ Len(Tail(s)) = Len(s) - 1 /\ Len(s) \in Nat \ {0} /\ Head(s) = s[1]
      /\ \A k \in 1..Len(Tail(s)) : Tail(s)[k] = s[k + 1]
  BY HeadTailProperties, EmptySeq, ToSetTail
<1> SUFFICES ASSUME NEW k \in 1..Len(Tail(s)), Tail(s)[k].reg = "INTCTL", NEW r \in Status,
                    r \notin after
             PROVE  Wiped(Tail(s), k, r)
  BY DEF Guarded
<1>2. k + 1 \in 1..Len(s) /\ s[k + 1].reg = "INTCTL" /\ k \in Nat
  BY <1>1
<1>3. PICK j \in 1..(k + 1) - 1 : s[j].op = "clear" /\ s[j].reg = r
  BY <1>2 DEF Guarded, Wiped
<1>4. j # 1
  BY <1>1, <1>3
<1>5. j - 1 \in 1..k - 1 /\ j - 1 \in 1..Len(Tail(s)) /\ (j - 1) + 1 = j
  BY <1>1, <1>4
<1>6. Tail(s)[j - 1] = s[j]
  BY <1>1, <1>5
<1> QED
  BY <1>3, <1>5, <1>6 DEF Wiped

LEMMA GuardedConcat ==
  ASSUME NEW S, NEW s \in Seq(S), NEW t \in Seq(S), NEW clear, NEW wiped
  PROVE  /\ Guarded(s, clear) /\ Quiet(t) => Guarded(s \o t, clear)
         /\ Quiet(s) /\ (\A r \in wiped : Wiped(s, Len(s) + 1, r)) /\ Guarded(t, clear \cup wiped)
              => Guarded(s \o t, clear)
         /\ Quiet(s) /\ Quiet(t) => Quiet(s \o t)
<1>1. /\ Len(s) \in Nat /\ Len(t) \in Nat /\ Len(s \o t) = Len(s) + Len(t)
      /\ \A k \in 1..Len(s) : (s \o t)[k] = s[k] /\ k \in 1..Len(s) + Len(t)
      /\ \A k \in Len(s) + 1..Len(s) + Len(t) : (s \o t)[k] = t[k - Len(s)]
  BY ConcatProperties, LenProperties
<1>2. \A k \in 1..Len(s) + Len(t) : k \in 1..Len(s) \/ k \in Len(s) + 1..Len(s) + Len(t)
  BY <1>1
<1>3. \A k \in Len(s) + 1..Len(s) + Len(t) : k - Len(s) \in 1..Len(t)
  BY <1>1
<1>4. ASSUME Quiet(t), NEW k \in Len(s) + 1..Len(s) + Len(t) PROVE (s \o t)[k].reg # "INTCTL"
  BY <1>1, <1>3, <1>4 DEF Quiet
<1>5. ASSUME Quiet(s), NEW k \in 1..Len(s) PROVE (s \o t)[k].reg # "INTCTL"
  BY <1>1, <1>5 DEF Quiet
<1>6. ASSUME Guarded(s, clear), Quiet(t) PROVE Guarded(s \o t, clear)
  <2> SUFFICES ASSUME NEW k \in 1..Len(s), s[k].reg = "INTCTL", NEW r \in Status, r \notin clear
               PROVE  Wiped(s \o t, k, r)
    BY <1>1, <1>2, <1>4, <1>6 DEF Guarded
  <2>1. PICK j \in 1..k - 1 : s[j].op = "clear" /\ s[j].reg = r
    BY <1>6 DEF Guarded, Wiped
  <2>2. j \in 1..Len(s)
    BY <1>1
  <2> QED
    BY <1>1, <2>1, <2>2 DEF Wiped
<1>7. ASSUME Quiet(s), \A r \in wiped : Wiped(s, Len(s) + 1, r), Guarded(t, clear \cup wiped)
      PROVE  Guarded(s \o t, clear)
  <2> SUFFICES ASSUME NEW k \in Len(s) + 1..Len(s) + Len(t), t[k - Len(s)].reg = "INTCTL",
                      NEW r \in Status, r \notin clear
               PROVE  Wiped(s \o t, k, r)
    BY <1>1, <1>2, <1>5, <1>7 DEF Guarded
  <2>1. CASE r \in wiped
    <3>1. PICK j \in 1..(Len(s) + 1) - 1 : s[j].op = "clear" /\ s[j].reg = r
      BY <1>7, <2>1 DEF Wiped
    <3>2. j \in 1..Len(s) /\ j \in 1..k - 1
      BY <1>1
    <3> QED
      BY <1>1, <3>1, <3>2 DEF Wiped
  <2>2. CASE r \notin wiped
    <3>1. Wiped(t, k - Len(s), r)
      BY <1>3, <1>7, <2>2 DEF Guarded
    <3>2. PICK j \in 1..(k - Len(s)) - 1 : t[j].op = "clear" /\ t[j].reg = r
      BY <3>1 DEF Wiped
    <3>3. Len(s) + j \in Len(s) + 1..Len(s) + Len(t) /\ Len(s) + j \in 1..k - 1
          /\ (Len(s) + j) - Len(s) = j
      BY <1>1
    <3>4. (s \o t)[Len(s) + j] = t[j]
      BY <1>1, <3>3
    <3> QED
      BY <3>2, <3>3, <3>4 DEF Wiped
  <2> QED
    BY <2>1, <2>2
<1>8. ASSUME Quiet(s), Quiet(t) PROVE Quiet(s \o t)
  BY <1>1, <1>2, <1>4, <1>5, <1>8 DEF Quiet
<1> QED
  BY <1>6, <1>7, <1>8

\* The pieces of main() that leave INTCTL alone.
LEMMA QuietPieces ==
  /\ Quiet(SetPosbuf)
  /\ \A enable \in BOOLEAN : Quiet(hda_dsp_ctrl_clock_power_gating(enable))
  /\ Quiet(hda_dsp_ctrl_ppcap) /\ Quiet(<<BootFirmware>>)
  /\ \A s \in {PrepareStream, <<Decouple>>} : Quiet(s)
<1>1. Quiet(SetPosbuf)
  <2>1. /\ Len(<<Write("DPLBASE", {"addr"}), Write("DPUBASE", {})>>) = 2
        /\ Write("DPLBASE", {"addr"}).reg # "INTCTL" /\ Write("DPUBASE", {}).reg # "INTCTL"
    BY DEF Write, Access
  <2> QED
    BY <2>1 DEF Quiet, SetPosbuf
<1>2. ASSUME NEW enable \in BOOLEAN PROVE Quiet(hda_dsp_ctrl_clock_power_gating(enable))
  <2> DEFINE cgctl == Update(CONFIG, "CGCTL", {"ADSPDCGE"}, IF enable THEN {"ADSPDCGE"} ELSE {})
             em2 == Update(HDA, "EM2", {"L1SEN"}, IF enable THEN {"L1SEN"} ELSE {})
             pgctl == Update(CONFIG, "PGCTL", {"ADSPPGD"}, IF enable THEN {} ELSE {"ADSPPGD"})
  <2>1. cgctl.reg # "INTCTL" /\ em2.reg # "INTCTL" /\ pgctl.reg # "INTCTL"
    BY DEF Update, Access
  <2> HIDE DEF cgctl, em2, pgctl
  <2>2. Quiet(<<cgctl, em2, pgctl>>)
    BY <2>1 DEF Quiet
  <2> QED
    BY <2>2 DEF hda_dsp_ctrl_clock_power_gating, cgctl, em2, pgctl
<1>3. Quiet(hda_dsp_ctrl_ppcap)
  BY DEF Quiet, hda_dsp_ctrl_ppcap, Update, Access
<1>4. Quiet(<<BootFirmware>>)
  BY DEF Quiet, BootFirmware, Access
<1>5. Quiet(PrepareStream) /\ Quiet(<<Decouple>>)
  <2> DEFINE spibe == Update(SPIB, "SPBFCTL", {"SPIBE"}, {"SPIBE"})
             dma == <<Decouple, Couple, Decouple>>
             S == {Decouple, Couple, spibe}
  <2>1. Decouple.reg # "INTCTL" /\ Couple.reg # "INTCTL" /\ spibe.reg # "INTCTL"
    BY DEF Decouple, Couple, Update, Access
  <2> HIDE DEF spibe
  <2>2. dma \in Seq(S) /\ <<spibe>> \in Seq(S) /\ <<>> \in Seq(S)
    OBVIOUS
  <2>3. Quiet(dma) /\ Quiet(<<Decouple>>) /\ Quiet(<<spibe>>) /\ Quiet(<<>>)
    BY <2>1 DEF Quiet
  <2> HIDE DEF S, dma
  <2>4. Quiet(dma \o <<spibe>>) /\ Quiet(dma \o <<>>)
    BY <2>2, <2>3, GuardedConcat
  <2> QED
    BY <2>3, <2>4 DEF PrepareStream, dma, spibe
<1> QED
  BY <1>1, <1>2, <1>3, <1>4, <1>5

\* The status registers that the probe clears when it knows n streams.
Streams(n) == {SdSts[k] : k \in 1..n}
Cleared(n) == {"WAKESTS", "INTSTS"} \cup Streams(n)

\* The probe clears those before it enables.
LEMMA MainGuarded ==
  ASSUME NEW n \in 0..Len(SdSts), NEW clear, Status \ Cleared(n) \subseteq clear
  PROVE  Guarded(main(n), clear)
<1> DEFINE S == Proper(TRUE)
           streams == ClearTcsel \o ClearStreams(n)
           enabled == streams \o EnableInterrupts
           based == enabled \o SetPosbuf
           probed == based \o hda_dsp_ctrl_ppcap
           on == hda_dsp_ctrl_clock_power_gating(TRUE)
           off == hda_dsp_ctrl_clock_power_gating(FALSE)
           boot == <<BootFirmware>>
           gated == probed \o off
           booted == gated \o boot
<1>1. n \in Nat /\ DOMAIN SdSts = 1..Len(SdSts) /\ 1..n \subseteq 1..Len(SdSts)
  BY SdStsAssumption, LenProperties
<1>2. Seq(Plain(TRUE)) \subseteq Seq(S)
  BY SeqMonotonic DEF Plain
<1>3. /\ streams \in Seq(S) /\ EnableInterrupts \in Seq(S)
      /\ SetPosbuf \in Seq(S) /\ hda_dsp_ctrl_ppcap \in Seq(S)
      /\ hda_dsp_probe(n) = probed
  BY <1>1, <1>2, ProbeParts
<1>4. on \in Seq(S) /\ off \in Seq(S) /\ boot \in Seq(S)
  BY <1>1, <1>2, MainProper, BootProper
<1>5. main(n) = booted \o on
  BY <1>3 DEF main
<1>6. Quiet(streams) /\ \A r \in Streams(n) : Wiped(streams, Len(streams) + 1, r)
  <2> DEFINE tcsel == Update(CONFIG, "PGCTL", {"TCSEL", "ADSPPGD"}, {})
             pending == ClearStreams(n)
             T == {tcsel} \cup {Clear(r) : r \in Status}
  <2>1. tcsel.reg # "INTCTL"
    BY DEF Update, Access
  <2>2. /\ Len(pending) = n
        /\ \A k \in 1..n : pending[k] = Clear(SdSts[k]) /\ SdSts[k] \in Status
    <3>1. pending = [k \in 1..n |-> Clear(SdSts[k])]
      BY DEF ClearStreams
    <3>2. \A k \in 1..n : SdSts[k] \in Status
      BY <1>1 DEF Status, ToSet
    <3> HIDE DEF pending
    <3> QED
      BY <1>1, <3>1, <3>2
  <2>3. \A r \in Status : Clear(r).op = "clear" /\ Clear(r).reg = r /\ r # "INTCTL"
    BY StatusApart, SharedRegisters DEF Clear, Access
  <2>4. pending \in Seq(T)
    <3>1. pending = [k \in 1..n |-> Clear(SdSts[k])] /\ \A k \in 1..n : Clear(SdSts[k]) \in T
      BY <2>2 DEF ClearStreams
    <3> HIDE DEF pending, T
    <3> QED
      BY <1>1, <3>1
  <2> HIDE DEF tcsel, pending, T
  <2>5. <<tcsel>> \in Seq(T) /\ Quiet(<<tcsel>>) /\ Len(<<tcsel>>) = 1
    BY <2>1 DEF Quiet, T
  <2>6. Quiet(pending)
    BY <2>2, <2>3 DEF Quiet
  <2>7. streams = <<tcsel>> \o pending
    BY DEF ClearTcsel, tcsel, pending
  <2>8. Quiet(<<tcsel>> \o pending)
    BY <2>4, <2>5, <2>6, GuardedConcat
  <2>9. ASSUME NEW r \in Streams(n) PROVE Wiped(streams, Len(streams) + 1, r)
    <3>1. PICK k \in 1..n : SdSts[k] = r
      BY DEF Streams
    <3>2. Len(streams) = 1 + n /\ k + 1 \in 1..Len(streams) /\ (k + 1) - 1 = k
          /\ ~(k + 1 <= 1)
      <4>1. Len(<<tcsel>> \o pending) = Len(<<tcsel>>) + Len(pending)
        BY <2>4, <2>5, ConcatProperties
      <4> HIDE DEF streams
      <4> QED
        BY <1>1, <2>2, <2>5, <2>7, <4>1
    <3>3. streams[k + 1] = pending[k]
      BY <1>1, <2>2, <2>4, <2>5, <2>7, <3>2, ConcatProperties
    <3>4. streams[k + 1].op = "clear" /\ streams[k + 1].reg = r
      BY <2>2, <2>3, <3>1, <3>3
    <3>5. k + 1 \in 1..(Len(streams) + 1) - 1
      BY <1>1, <3>2
    <3> QED
      BY <3>4, <3>5 DEF Wiped
  <2> QED
    BY <2>7, <2>8, <2>9
<1>7. Guarded(EnableInterrupts, clear \cup Streams(n))
  <2> DEFINE wake == Clear("WAKESTS")
             int == Clear("INTSTS")
             intctl == Update(HDA, "INTCTL", {"CIE", "GIE"}, {"CIE", "GIE"})
  <2>1. /\ wake.op = "clear" /\ wake.reg = "WAKESTS" /\ int.op = "clear" /\ int.reg = "INTSTS"
    BY DEF Clear, Access
  <2> HIDE DEF wake, int, intctl
  <2>2. EnableInterrupts = <<wake, int, intctl>>
    BY DEF EnableInterrupts, wake, int, intctl
  <2>3. Len(EnableInterrupts) = 3 /\ EnableInterrupts[1] = wake /\ EnableInterrupts[2] = int
    BY <2>2
  <2>4. Wiped(EnableInterrupts, 3, "WAKESTS") /\ Wiped(EnableInterrupts, 3, "INTSTS")
    <3>1. 1 \in 1..3 - 1 /\ 2 \in 1..3 - 1
      OBVIOUS
    <3> QED
      BY <2>1, <2>3, <3>1 DEF Wiped
  <2>5. \A k \in 1..3 : EnableInterrupts[k].reg = "INTCTL" => k = 3
    BY <2>1, <2>3
  <2> QED
    BY <2>3, <2>4, <2>5 DEF Guarded, Cleared
<1> HIDE DEF S, streams, on, off, boot
<1>8. enabled \in Seq(S) /\ Guarded(enabled, clear)
  BY <1>3, <1>6, <1>7, GuardedConcat, ConcatProperties
<1> HIDE DEF enabled
<1>9. based \in Seq(S) /\ Guarded(based, clear)
  BY <1>3, <1>8, GuardedConcat, ConcatProperties, QuietPieces
<1> HIDE DEF based
<1>10. probed \in Seq(S) /\ Guarded(probed, clear)
  BY <1>3, <1>9, GuardedConcat, ConcatProperties, QuietPieces
<1> HIDE DEF probed
<1>11. Quiet(on) /\ Quiet(off) /\ Quiet(boot)
  BY QuietPieces DEF on, off, boot
<1>12. gated \in Seq(S) /\ Guarded(gated, clear)
  BY <1>4, <1>10, <1>11, GuardedConcat, ConcatProperties
<1> HIDE DEF gated
<1>13. booted \in Seq(S) /\ Guarded(booted, clear)
  BY <1>4, <1>11, <1>12, GuardedConcat, ConcatProperties
<1> HIDE DEF booted
<1>14. Guarded(booted \o on, clear)
  BY <1>4, <1>11, <1>13, GuardedConcat
<1> QED
  BY <1>5, <1>14

\* The status registers are only ever cleared, and what main() has still to
\* do clears those that it knows of and has not cleared or missed, before it
\* enables an interrupt.
PendingInv ==
  /\ \A r \in Status : regs[r] \subseteq {"stale"}
  /\ prog = "sof" /\ pc \in {"msi", "access"} =>
       /\ faults = 0 => listed = Len(SdSts)
       /\ \A clear \in SUBSET Status :
            (\A r \in Status :
               regs[r] = {} \/ r \in missed \/ r \notin Cleared(listed) => r \in clear)
              => Guarded(todo, clear)

LEMMA InitPending == Init => PendingInv
<1> SUFFICES ASSUME Init PROVE PendingInv
  OBVIOUS
<1>1. PICK left \in BOOLEAN :
        regs = [r \in Registers |->
                  IF r \in Shared THEN {"other"} \cup (IF left THEN Own[r] ELSE {})
                  ELSE IF r \in Status THEN {"stale"} ELSE {}]
  BY DEF Init
<1>2. \A r \in Status : regs[r] = {"stale"}
  BY <1>1, StatusApart DEF Registers
<1>3. pc = "session"
  BY DEF Init
<1> QED
  BY <1>2, <1>3 DEF PendingInv

\* With no refusal discovery has the device and its IOMMU.
LEMMA SessionGranted ==
  ASSUME CallsInv, GrantedInv, FlowInv, pc = "walked", faults = 0
  PROVE  {"device", "iommu"} \subseteq have
<1>1. calls = <<>> /\ ToSet(calls) = {} /\ Script[prog] = vfio_setup
  BY EmptyCalls DEF FlowInv, Script
<1>2. vfio_setup[7] = "device" /\ vfio_setup[5] = "iommu" /\ DOMAIN vfio_setup = 1..9
  BY DEF vfio_setup, Opening
<1>3. "device" \in ToSet(vfio_setup) /\ "iommu" \in ToSet(vfio_setup)
  BY <1>2 DEF ToSet
<1> QED
  BY <1>1, <1>3 DEF GrantedInv

\* What an access does to the status registers: it clears one, or misses it.
LEMMA AccessClears ==
  ASSUME FlowInv, RegsInv, PendingInv, NEW a, Done(a) \/ Fails(a) \/ Strays(a)
  PROVE  /\ \A r \in Status : regs'[r] \subseteq regs[r]
         /\ missed \subseteq missed'
         /\ a.op = "clear" /\ a.reg \in Status => regs'[a.reg] = {} \/ a.reg \in missed'
<1>1. NextAccess(a) /\ a \in Proper(offsets[SPIB] # 0)
  <2>1. NextAccess(a)
    BY DEF Done, Fails, Strays
  <2> QED
    BY <2>1, NextIsProper
<1>2. /\ a.reg \in Registers
      /\ a.reg \in Status => a.op = "clear" /\ a.mask = {"stale"}
  BY <1>1 DEF Proper, AccessType
<1>3. regs \in [Registers -> SUBSET Bits] /\ Status \subseteq Registers
  BY DEF RegsInv, Registers
<1>4. CASE Done(a)
  <2>1. regs' = [regs EXCEPT ![a.reg] = Written(a, regs[a.reg])] /\ missed' = missed
    BY <1>4 DEF Done
  <2>2. ASSUME a.reg \in Status PROVE Written(a, regs[a.reg]) = {}
    BY <1>2, <2>2 DEF Written, PendingInv
  <2> QED
    BY <1>2, <1>3, <2>1, <2>2
<1>5. CASE Fails(a)
  <2>1. /\ regs' = regs \/ (regs' = [regs EXCEPT ![a.reg] = a.value] /\ a.op = "update")
        /\ missed' = missed \cup {a.reg}
    BY <1>5 DEF Fails
  <2> QED
    BY <1>2, <1>3, <2>1
<1>6. CASE Strays(a)
  BY <1>6 DEF Strays
<1> QED
  BY <1>4, <1>5, <1>6

LEMMA NextPending == DriverInv /\ PendingInv /\ [Next]_vars => PendingInv'
<1> SUFFICES ASSUME DriverInv, PendingInv, [Next]_vars PROVE PendingInv'
  OBVIOUS
<1> USE DEF DriverInv
<1>1. ASSUME UNCHANGED <<prog, regs, todo, faults, listed, missed>>,
             pc' \in {"msi", "access"} => pc \in {"msi", "access"}
      PROVE  PendingInv'
  BY <1>1 DEF PendingInv
<1>2. ASSUME UNCHANGED regs, pc' \notin {"msi", "access"} \/ prog' # "sof" PROVE PendingInv'
  BY <1>2 DEF PendingInv
<1>3. CASE Session \/ SessionOver \/ hda_dsp_ctrl_get_caps
  BY <1>2, <1>3 DEF Session, driverVars, ioVars, SessionOver, sessionVars, hda_dsp_ctrl_get_caps,
     W!ReadStart, W!StartFails, W!Start, W!ReadHeader, W!HeaderFails, W!Visit
<1>4. CASE hda_dsp_stream_init
  <2>1. /\ pc = "walked" /\ regs' = regs /\ todo' = main(listed')
        /\ faults' = 0 => faults = 0
    BY <1>4 DEF hda_dsp_stream_init, Fault, CallsInv
  <2>2. ASSUME faults' = 0 PROVE listed' = Len(SdSts)
    <3>1. {"device", "iommu"} \subseteq have
      BY <2>1, <2>2, SessionGranted
    <3> QED
      BY <1>4, <2>2, <3>1 DEF hda_dsp_stream_init, Fault, CallsInv
  <2>3. listed' \in 0..Len(SdSts)
    <3>1. Len(SdSts) \in Nat
      BY SdStsAssumption, LenProperties
    <3> QED
      BY <1>4, <3>1 DEF hda_dsp_stream_init, CountInv
  <2>4. ASSUME NEW clear \in SUBSET Status, \A r \in Status : r \notin Cleared(listed') => r \in clear
        PROVE  Guarded(todo', clear)
    BY <2>1, <2>3, <2>4, MainGuarded
  <2> QED
    BY <2>1, <2>2, <2>4 DEF PendingInv
<1>5. CASE irq_enable
  <2>1. /\ UNCHANGED <<prog, regs, todo, listed, missed>> /\ pc = "msi"
        /\ faults' = 0 => faults = 0
    BY <1>5 DEF irq_enable, ioVars, Denied, Fault, CallsInv
  <2> QED
    BY <2>1 DEF PendingInv
<1>6. ASSUME NEW a, Done(a) \/ Fails(a) \/ Strays(a) PROVE PendingInv'
  <2>1. /\ UNCHANGED <<prog, pc, listed>> /\ pc = "access" /\ todo' = Tail(todo)
        /\ todo # <<>> /\ a = Head(todo) /\ todo \in Seq(Proper(offsets[SPIB] # 0))
    BY <1>6 DEF Done, Fails, Strays, NextAccess, FlowInv
  <2>2. /\ \A r \in Status : regs'[r] \subseteq regs[r]
        /\ missed \subseteq missed'
        /\ a.op = "clear" /\ a.reg \in Status => regs'[a.reg] = {} \/ a.reg \in missed'
    BY <1>6, AccessClears
  <2>3. faults' = 0 => faults = 0
    BY <1>6 DEF Done, Fails, Strays, Denied, Fault, CallsInv
  <2>4. ASSUME prog = "sof", NEW after \in SUBSET Status,
               \A r \in Status :
                 regs'[r] = {} \/ r \in missed' \/ r \notin Cleared(listed) => r \in after
        PROVE  Guarded(todo', after)
    <3> DEFINE clear == {r \in Status : regs[r] = {} \/ r \in missed \/ r \notin Cleared(listed)}
    <3>1. Guarded(todo, clear)
      <4>1. clear \in SUBSET Status
            /\ \A r \in Status :
                 regs[r] = {} \/ r \in missed \/ r \notin Cleared(listed) => r \in clear
        OBVIOUS
      <4> HIDE DEF clear
      <4> QED
        BY <2>1, <2>4, <4>1 DEF PendingInv
    <3>2. clear \subseteq after
      BY <2>2, <2>4
    <3>3. Head(todo).op = "clear" /\ Head(todo).reg \in Status => Head(todo).reg \in after
      BY <2>1, <2>2, <2>4
    <3> HIDE DEF clear
    <3>4. Guarded(Tail(todo), after)
      BY <2>1, <3>1, <3>2, <3>3, GuardedTail
    <3> QED
      BY <2>1, <3>4
  <2>5. \A r \in Status : regs'[r] \subseteq {"stale"}
    BY <2>2 DEF PendingInv
  <2> QED
    BY <2>1, <2>3, <2>4, <2>5 DEF PendingInv
<1>7. CASE hda_dsp_cl_boot_firmware
  <2> DEFINE S == Proper(offsets[SPIB] # 0)
  <2>1. /\ UNCHANGED <<prog, pc, regs, faults, listed, missed>> /\ pc = "access"
        /\ todo # <<>> /\ todo \in Seq(S) /\ Head(todo).op = "boot"
    BY <1>7 DEF hda_dsp_cl_boot_firmware, sessionVars, FlowInv
  <2>2. \/ todo' \in {todo, Tail(todo)}
        \/ \E s \in {PrepareStream, <<Decouple>>} : todo' = s \o todo
    BY <1>7 DEF hda_dsp_cl_boot_firmware, Prepare, Attempt, Return
  <2>3. \A s \in {PrepareStream, <<Decouple>>} : s \in Seq(S) /\ Quiet(s)
    BY PrepareProper, QuietPieces
  <2> HIDE DEF S
  <2>4. ASSUME NEW clear, Guarded(todo, clear) PROVE Guarded(todo', clear)
    <3>1. Guarded(Tail(todo), clear)
      BY <2>1, <2>4, GuardedTail
    <3>2. ASSUME NEW s \in {PrepareStream, <<Decouple>>} PROVE Guarded(s \o todo, clear)
      <4> DEFINE wiped == {}
      <4>1. /\ clear \cup wiped = clear
            /\ \A r \in wiped : Wiped(s, Len(s) + 1, r)
        OBVIOUS
      <4> HIDE DEF wiped
      <4>2. Guarded(todo, clear \cup wiped)
        BY <2>4, <4>1
      <4>3. s \in Seq(S) /\ Quiet(s)
        BY <2>3
      <4> QED
        BY <2>1, <4>1, <4>2, <4>3, GuardedConcat, Zenon
    <3> QED
      BY <2>2, <2>4, <3>1, <3>2
  <2> QED
    BY <2>1, <2>4 DEF PendingInv
<1>8. CASE Exit
  BY <1>1, <1>8 DEF Exit, sessionVars, ioVars
<1>9. CASE UNCHANGED vars
  BY <1>1, <1>9 DEF vars, sessionVars, driverVars, ioVars
<1> QED
  BY <1>3, <1>4, <1>5, <1>6, <1>7, <1>8, <1>9, Zenon DEF Next

\* For every device, any number of its streams and any number of refusals: no
\* interrupt is enabled while an old one is pending in a status register that
\* the program knows of and reached, and with nothing refused it knows of all.
THEOREM ClearFirst == Spec => EnabledWhenClear
<1> DEFINE Raised == prog = "sof" /\ "GIE" \notin regs["INTCTL"] /\ "GIE" \in regs'["INTCTL"]
<1>1. DriverInv /\ PendingInv /\ [Next]_vars =>
        [Raised => NothingPending /\ (faults = 0 => listed = Len(SdSts))]_vars
  <2> SUFFICES ASSUME DriverInv, PendingInv, Next, Raised
               PROVE  NothingPending /\ (faults = 0 => listed = Len(SdSts))
    OBVIOUS
  <2>1. PICK a : Done(a) \/ Fails(a)
    <3>1. regs' # regs
      OBVIOUS
    <3> QED
      BY <3>1, Zenon DEF Next, Session, driverVars, ioVars, SessionOver, hda_dsp_ctrl_get_caps,
         hda_dsp_stream_init, irq_enable, Strays, hda_dsp_cl_boot_firmware, Exit
  <2>2. /\ pc = "access" /\ a = Head(todo) /\ todo # <<>>
        /\ todo \in Seq(Proper(offsets[SPIB] # 0))
    BY <2>1 DEF Done, Fails, NextAccess, DriverInv, FlowInv
  <2>3. Len(todo) \in Nat \ {0} /\ a = todo[1]
    BY <2>2, EmptySeq, LenProperties
  <2>4. a.reg = "INTCTL"
    <3>1. \/ regs' = regs \/ regs' = [regs EXCEPT ![a.reg] = a.value]
          \/ regs' = [regs EXCEPT ![a.reg] = Written(a, regs[a.reg])]
      BY <2>1 DEF Done, Fails
    <3>2. regs \in [Registers -> SUBSET Bits] /\ "INTCTL" \in Registers
      BY SharedRegisters DEF DriverInv, RegsInv, Registers
    <3> QED
      BY <3>1, <3>2
  <2> DEFINE clear == {q \in Status : regs[q] = {} \/ q \in missed \/ q \notin Cleared(listed)}
  <2>5. Guarded(todo, clear)
    <3>1. clear \in SUBSET Status
          /\ \A q \in Status : regs[q] = {} \/ q \in missed \/ q \notin Cleared(listed) => q \in clear
      OBVIOUS
    <3> HIDE DEF clear
    <3> QED
      BY <2>2, <3>1 DEF PendingInv
  <2>6. \A r : ~Wiped(todo, 1, r)
    BY DEF Wiped
  <2>7. \A r \in Status : r \in clear
    <3> HIDE DEF clear
    <3> QED
      BY <2>3, <2>4, <2>5, <2>6 DEF Guarded
  <2>8. Cleared(listed) \subseteq Status
    <3>1. DOMAIN SdSts = 1..Len(SdSts) /\ Len(SdSts) \in Nat /\ listed \in 0..Len(SdSts)
      BY SdStsAssumption, LenProperties DEF DriverInv, CountInv
    <3> QED
      BY <3>1 DEF Cleared, Streams, Status, ToSet
  <2>9. NothingPending
    BY <2>7, <2>8 DEF NothingPending, Cleared, Streams
  <2>10. faults = 0 => listed = Len(SdSts)
    BY <2>2 DEF PendingInv
  <2> QED
    BY <2>9, <2>10
<1> QED
  BY InitDriver, NextDriver, InitPending, NextPending, <1>1, PTL DEF Spec, EnabledWhenClear

-----------------------------------------------------------------------------
(* What the parts promise holds in the whole.                              *)

WP == INSTANCE CapWalkProofs WITH Unanswered <- Regions

\* The facts about the walk hold here as they are.
LEMMA WalkStarts == W!Init => WP!IInv
<1>1. W!Init => WP!Init
  BY DEF W!Init, WP!Init, W!Words, WP!Words, W!Regions, WP!Regions, W!Headers, WP!Headers,
     W!Kinds, WP!Kinds
<1> QED
  BY <1>1, WP!InitIInv, SpanIsPositive, PlacesBelowSpan, LimitsAssumption

LEMMA WalkGoesOn ==
  /\ WP!IInv /\ [W!Next]_(W!vars) => WP!IInv'
  /\ WP!IInv => W!FoundExactly
<1>1. [W!Next]_(W!vars) => [WP!Next]_(WP!vars)
  BY DEF W!Next, WP!Next, W!ReadStart, WP!ReadStart, W!StartFails, WP!StartFails, W!ReadHeader,
     WP!ReadHeader, W!HeaderFails, WP!HeaderFails, W!Visit, WP!Visit, W!Start, WP!Start,
     W!Counted, WP!Counted, W!Again, WP!Again, W!Record, WP!Record, W!Kinds, WP!Kinds,
     W!Slot, WP!Slot, W!NoHeader, WP!NoHeader, W!vars, WP!vars, W!device, WP!device
<1>2. WP!IInv => W!FoundExactly
  BY DEF WP!IInv, W!FoundExactly, WP!FoundExactly, W!SlotsMeanKinds, WP!SlotsMeanKinds,
     W!WalkedAll, WP!WalkedAll, W!Found, WP!Found, W!Kinds, WP!Kinds, W!Slot, WP!Slot
<1> QED
  BY <1>1, <1>2, WP!NextIInv, SpanIsPositive, PlacesBelowSpan, LimitsAssumption

WalkInv ==
  /\ pc = "session" => offset = 0 /\ count = 0 /\ failed = FALSE /\ seen = {}
  /\ pc = "llch" => W!Init
  /\ pc \in {"llch", "walk", "walked"} => WP!IInv
  /\ pc \in {"msi", "access", "exit"} /\ prog = "sof" => W!SlotsMeanKinds

\* A step is one of CapWalk's or does not touch what the walk keeps; after
\* the session nothing but the walk changes a slot.
LEMMA WalkSteps ==
  [Next]_vars =>
    \/ pc \in {"llch", "walk"} /\ W!Next
    \/ pc = "session" /\ pc' = "session" /\ UNCHANGED walkVars
    \/ pc = "session" /\ SessionOver
    \/ /\ pc \in {"walked", "msi", "access"} /\ pc' \in {"msi", "access", "exit"}
       /\ UNCHANGED <<walkVars, offsets, known, prog>>
    \/ UNCHANGED <<W!vars, prog>>
<1> SUFFICES ASSUME [Next]_vars
             PROVE  \/ pc \in {"llch", "walk"} /\ W!Next
                    \/ pc = "session" /\ pc' = "session" /\ UNCHANGED walkVars
                    \/ pc = "session" /\ SessionOver
                    \/ /\ pc \in {"walked", "msi", "access"} /\ pc' \in {"msi", "access", "exit"}
                       /\ UNCHANGED <<walkVars, offsets, known, prog>>
                    \/ UNCHANGED <<W!vars, prog>>
  OBVIOUS
<1>1. CASE hda_dsp_ctrl_get_caps
  BY <1>1 DEF hda_dsp_ctrl_get_caps, W!Next, W!ReadStart, W!ReadHeader, W!StartFails,
     W!HeaderFails, W!Start, W!Visit
<1>2. ASSUME NEW a, NextAccess(a)
      PROVE pc = "access" /\ pc' = "access" /\ UNCHANGED <<walkVars, offsets, known, prog>>
  BY <1>2 DEF NextAccess
<1>3. CASE UNCHANGED vars
  BY <1>3 DEF vars, sessionVars, driverVars, walkVars, W!vars, W!device
<1>4. CASE Session \/ SessionOver \/ hda_dsp_stream_init
  BY <1>4 DEF Session, driverVars, SessionOver, hda_dsp_stream_init
<1>5. CASE irq_enable \/ hda_dsp_cl_boot_firmware \/ Exit
  BY <1>5 DEF irq_enable, hda_dsp_cl_boot_firmware, Exit, sessionVars
<1> QED
  BY <1>1, <1>2, <1>3, <1>4, <1>5, Zenon DEF Next, Done, Fails, Strays

\* Where the session ends the walk begins, with the slots as CapWalk has them.
LEMMA WalkBegins == DriverInv /\ WalkInv /\ pc = "session" /\ prog = "sof" /\ SessionOver => W!Init'
<1> SUFFICES ASSUME DriverInv, WalkInv, pc = "session", prog = "sof", SessionOver PROVE W!Init'
  OBVIOUS
<1>1. seen = {} /\ offset = 0 /\ count = 0 /\ failed = FALSE
  BY DEF WalkInv
<1>2. \A r \in Regions : offsets[r] = IF r \in known THEN r * Span ELSE 0
  BY <1>1 DEF DriverInv, SlotInv, SlotHolds, W!Found
<1>3. /\ offsets = [r \in W!Regions |-> IF r \in known THEN r * Span ELSE 0]
      /\ known \in {W!Regions \ unknown : unknown \in SUBSET Regions}
  <2>1. known \subseteq Regions /\ Regions = W!Regions
    BY DEF DriverInv, CallsInv, Regions, W!Regions
  <2>2. known = Regions \ (Regions \ known)
    BY <2>1
  <2> QED
    BY <1>2, <2>1, <2>2 DEF DriverInv, SlotInv
<1>4. mem \in [W!Words -> W!Headers] /\ mem[0].id = "other" /\ llch \in W!Words
  BY DEF DriverInv, SlotInv
<1>5. UNCHANGED <<mem, llch, offset, count, failed, seen, offsets, known>> /\ pc' = "llch"
  BY DEF SessionOver, walkVars, sessionVars
<1> QED
  BY <1>1, <1>3, <1>4, <1>5, Zenon DEF W!Init

LEMMA NextWalk == DriverInv /\ WalkInv /\ [Next]_vars => WalkInv'
<1> SUFFICES ASSUME DriverInv, WalkInv, [Next]_vars PROVE WalkInv'
  OBVIOUS
<1>1. CASE pc \in {"llch", "walk"} /\ W!Next
  <2>1. pc' \in {"walk", "walked"}
    BY <1>1 DEF W!Next, W!ReadStart, W!ReadHeader, W!StartFails, W!HeaderFails, W!Start, W!Visit
  <2>2. WP!IInv'
    BY <1>1, WalkGoesOn DEF WalkInv
  <2> QED
    BY <2>1, <2>2 DEF WalkInv
<1>2. CASE pc = "session" /\ pc' = "session" /\ UNCHANGED walkVars
  BY <1>2 DEF walkVars, WalkInv
<1>3. CASE pc = "session" /\ SessionOver
  <2>1. /\ pc' = IF prog = "sof" THEN "llch" ELSE "access"
        /\ prog' = prog
    BY <1>3 DEF SessionOver, sessionVars
  <2>2. CASE prog = "sof"
    <3>1. W!Init' /\ WP!IInv'
      <4>1. W!Init'
        BY <1>3, <2>2, WalkBegins
      <4>2. (W!Init => WP!IInv)'
        BY WalkStarts, PTL
      <4> QED
        BY <4>1, <4>2
    <3> QED
      BY <2>1, <2>2, <3>1 DEF WalkInv
  <2>3. CASE prog # "sof"
    BY <2>1, <2>3 DEF WalkInv
  <2> QED
    BY <2>2, <2>3
<1>4. CASE /\ pc \in {"walked", "msi", "access"} /\ pc' \in {"msi", "access", "exit"}
           /\ UNCHANGED <<walkVars, offsets, known, prog>>
  <2>1. prog = "sof" => W!SlotsMeanKinds
    BY <1>4, WalkGoesOn DEF WalkInv, W!FoundExactly
  <2>2. (prog = "sof" => W!SlotsMeanKinds)'
    BY <1>4, <2>1 DEF walkVars, W!SlotsMeanKinds, W!Found
  <2> QED
    BY <1>4, <2>2 DEF WalkInv
<1>5. CASE UNCHANGED <<W!vars, prog>>
  <2>1. pc \in {"llch", "walk", "walked"} => WP!IInv'
    BY <1>5, WalkGoesOn DEF WalkInv
  <2>2. pc = "llch" => W!Init'
    BY <1>5 DEF WalkInv, W!Init, W!vars, W!device
  <2>3. W!SlotsMeanKinds => W!SlotsMeanKinds'
    BY <1>5 DEF W!SlotsMeanKinds, W!Found, W!vars, W!device
  <2> QED
    BY <1>5, <2>1, <2>2, <2>3 DEF WalkInv, W!vars, W!device
<1> QED
  BY <1>1, <1>2, <1>3, <1>4, <1>5, WalkSteps

LEMMA InitWalk == Init => WalkInv
  BY DEF Init, WalkInv

\* The walk in the program is the walk of CapWalk: it begins as CapWalk says,
\* takes its steps and no others, and ends with the slots as found, whatever
\* the session was refused; and so they stay (sof-vfio.c 91-94, probe.c
\* 131-188).
THEOREM WalkComposes ==
  Spec => /\ [](pc = "llch" => W!Init)
          /\ [][W!Next \/ pc \notin {"llch", "walk"}]_(W!vars)
          /\ [](pc = "walked" => W!FoundExactly)
          /\ [](pc \in {"msi", "access", "exit"} /\ prog = "sof" => W!SlotsMeanKinds)
<1>1. WalkInv => /\ pc = "llch" => W!Init
                 /\ pc = "walked" => W!FoundExactly
                 /\ pc \in {"msi", "access", "exit"} /\ prog = "sof" => W!SlotsMeanKinds
  BY WalkGoesOn DEF WalkInv
<1>2. [Next]_vars => [W!Next \/ pc \notin {"llch", "walk"}]_(W!vars)
  BY WalkSteps
<1> QED
  BY InitDriver, NextDriver, InitWalk, NextWalk, <1>1, <1>2, PTL DEF Spec

-----------------------------------------------------------------------------
(* The steps that are left.                                                *)

\* The calls and regions of the session, and the headers of the walk.
SessionRank == Len(calls) + (9 - i)
WalkRank == (MaxCaps + 2) - count

\* The accesses and the steps of the boot, which makes four accesses more.
BootRank ==
  CASE phase = "preparing" -> Attempts + 6
    [] phase = "trying"    -> (Attempts - tries) + 1
    [] phase = "loading"   -> 1
    [] OTHER               -> 0
AccessRank == BootRank + Len(todo)

\* The stages of main(), and the accesses it will make, at most.
StageRank ==
  CASE pc = "session" -> Len(SdSts) + 21 [] pc = "llch" -> Len(SdSts) + 20
    [] pc = "walk"    -> Len(SdSts) + 19 [] pc = "walked" -> Len(SdSts) + 18
    [] pc = "msi"     -> 2               [] pc = "access" -> 1
    [] OTHER          -> 0

\* An upper bound on the steps the program still takes.
ProgramRank == SessionRank + WalkRank + AccessRank + StageRank

RanksOK ==
  /\ SessionRank \in Nat /\ WalkRank \in Nat /\ AccessRank \in Nat /\ BootRank \in Nat
  /\ StageRank \in Nat

\* Of the accesses only the number counts here.
LEMMA Lengths ==
  DriverInv => /\ Len(calls) \in Nat /\ Len(todo) \in Nat /\ Len(SdSts) \in Nat
               /\ (calls # <<>> => Len(Tail(calls)) = Len(calls) - 1)
               /\ (todo # <<>> => Len(Tail(todo)) = Len(todo) - 1)
<1> SUFFICES ASSUME DriverInv
             PROVE  /\ Len(calls) \in Nat /\ Len(todo) \in Nat /\ Len(SdSts) \in Nat
                    /\ (calls # <<>> => Len(Tail(calls)) = Len(calls) - 1)
                    /\ (todo # <<>> => Len(Tail(todo)) = Len(todo) - 1)
  OBVIOUS
<1>1. \A S : \A s \in Seq(S) : Len(s) \in Nat /\ (s # <<>> => Len(Tail(s)) = Len(s) - 1)
  BY LenProperties, HeadTailProperties
<1> QED
  BY <1>1, SdStsAssumption, Zenon DEF DriverInv, CallsInv, FlowInv

LEMMA RanksInRange == DriverInv => RanksOK
<1> SUFFICES ASSUME DriverInv PROVE RanksOK
  OBVIOUS
<1> USE Lengths, LimitsAssumption
<1>1. SessionRank \in Nat /\ WalkRank \in Nat
  BY DEF DriverInv, CallsInv, CountInv, SessionRank, WalkRank
<1>2. BootRank \in Nat /\ StageRank \in Nat
  BY DEF DriverInv, CountInv, BootRank, StageRank
<1>3. AccessRank \in Nat
  BY <1>2 DEF AccessRank
<1> QED
  BY <1>1, <1>2, <1>3 DEF RanksOK

LEMMA ScriptLengths == \A p \in Programs : Len(Script[p]) \in {9, 10, 12, 13, 15}
<1>1. Len(vfio_setup) = 9
  BY DEF vfio_setup, Opening
<1>2. Len(vfio_boot) = 13
  BY DEF vfio_boot, Opening, load_fw_for_dma
<1>3. Len(vfio_api) = 12
  BY DEF vfio_api, Opening
<1>4. Len(vfio_irq) = 10
  BY DEF vfio_irq, Opening
<1>5. Len(vfio_write) = 15
  BY DEF vfio_write, Opening
<1> QED
  <2>1. /\ Script["sof"] = vfio_setup /\ Script["boot"] = vfio_boot /\ Script["api"] = vfio_api
        /\ Script["irq"] = vfio_irq /\ Script["write"] = vfio_write
    BY DEF Script
  <2>2. Programs = {"sof", "boot", "api", "irq", "write"}
    BY DEF Programs, Script
  <2> QED
    BY <1>1, <1>2, <1>3, <1>4, <1>5, <2>1, <2>2, Zenon

LEMMA LengthsAdd ==
  ASSUME NEW S, NEW s \in Seq(S), NEW t \in Seq(S)
  PROVE  s \o t \in Seq(S) /\ Len(s \o t) = Len(s) + Len(t)
  BY ConcatProperties

\* What main() is left with after discovery.
LEMMA MainLength ==
  ASSUME NEW n \in 0..Len(SdSts)
  PROVE  Len(main(n)) \in 0..Len(SdSts) + 15
<1> DEFINE S == Plain(TRUE)
           T == Proper(TRUE)
           streams == ClearTcsel \o ClearStreams(n)
           clear == streams \o EnableInterrupts
           posbufs == clear \o SetPosbuf
           probe == posbufs \o hda_dsp_ctrl_ppcap
           off == hda_dsp_ctrl_clock_power_gating(FALSE)
           on == hda_dsp_ctrl_clock_power_gating(TRUE)
           boot == <<BootFirmware>>
<1>1. streams \in Seq(S) /\ EnableInterrupts \in Seq(S) /\ SetPosbuf \in Seq(S)
      /\ hda_dsp_ctrl_ppcap \in Seq(S) /\ off \in Seq(S) /\ on \in Seq(S)
  BY ProbeParts, MainProper
<1>2. Seq(S) \subseteq Seq(T) /\ boot \in Seq(T)
  BY SeqMonotonic, BootProper DEF Plain
<1>3. /\ Len(EnableInterrupts) = 3 /\ Len(SetPosbuf) = 2 /\ Len(hda_dsp_ctrl_ppcap) = 2
      /\ Len(off) = 3 /\ Len(on) = 3 /\ Len(boot) = 1
  BY DEF EnableInterrupts, SetPosbuf, hda_dsp_ctrl_ppcap, hda_dsp_ctrl_clock_power_gating
<1>4. n \in Nat /\ Len(streams) = n + 1
  <2> DEFINE C == {Clear(SdSts[k]) : k \in 1..n} \cup {ClearTcsel[1]}
  <2>1. n \in Nat
    BY SdStsAssumption, LenProperties
  <2>2. ClearStreams(n) \in [1..n -> C]
    BY DEF ClearStreams
  <2>3. ClearTcsel \in Seq(C) /\ Len(ClearTcsel) = 1
    BY DEF ClearTcsel
  <2> HIDE DEF C
  <2>4. ClearStreams(n) \in Seq(C) /\ Len(ClearStreams(n)) = n
    BY <2>1, <2>2
  <2>5. Len(streams) = Len(ClearTcsel) + Len(ClearStreams(n))
    BY <2>3, <2>4, LengthsAdd, Zenon
  <2> QED
    BY <2>1, <2>3, <2>4, <2>5
<1>5. main(n) = probe \o off \o boot \o on
  BY ProbeParts DEF main
<1> HIDE DEF S, T, streams, off, on, boot
<1>6. clear \in Seq(S) /\ Len(clear) = Len(streams) + Len(EnableInterrupts)
  BY <1>1, LengthsAdd, Zenon
<1> HIDE DEF clear
<1>7. posbufs \in Seq(S) /\ Len(posbufs) = Len(clear) + Len(SetPosbuf)
  BY <1>1, <1>6, LengthsAdd, Zenon
<1> HIDE DEF posbufs
<1>8. probe \in Seq(S) /\ Len(probe) = Len(posbufs) + Len(hda_dsp_ctrl_ppcap)
  BY <1>1, <1>7, LengthsAdd, Zenon
<1> HIDE DEF probe
<1> DEFINE before == probe \o off
<1>9. before \in Seq(S) /\ Len(before) = Len(probe) + Len(off)
  BY <1>1, <1>8, LengthsAdd, Zenon
<1> HIDE DEF before
<1> DEFINE m == before \o boot
<1>10. m \in Seq(T) /\ Len(m) = Len(before) + Len(boot)
  BY <1>2, <1>9, LengthsAdd, Zenon
<1> HIDE DEF m
<1>11. Len(m \o on) = Len(m) + Len(on)
  BY <1>1, <1>2, <1>10, LengthsAdd, Zenon
<1>12. Len(m \o on) = n + 15
  BY <1>3, <1>4, <1>6, <1>7, <1>8, <1>9, <1>10, <1>11
<1>13. Len(SdSts) \in Nat
  BY SdStsAssumption, LenProperties
<1> QED
  <2>1. main(n) = m \o on
    BY <1>5, Zenon DEF m, before
  <2> QED
    BY <1>4, <1>12, <1>13, <2>1

LEMMA PrepareLength ==
  DriverInv => \A s \in {PrepareStream, <<Decouple>>} : Len(s \o todo) \in 0..Len(todo) + 4
<1> SUFFICES ASSUME DriverInv, NEW s \in {PrepareStream, <<Decouple>>}
             PROVE  Len(s \o todo) \in 0..Len(todo) + 4
  OBVIOUS
<1> DEFINE S == Proper(offsets[SPIB] # 0)
<1>1. s \in Seq(S) /\ todo \in Seq(S)
  BY PrepareProper DEF DriverInv, FlowInv
<1>2. Len(s) <= 4
  BY DEF PrepareStream
<1> HIDE DEF S
<1>3. Len(s \o todo) = Len(s) + Len(todo)
  BY <1>1, ConcatProperties
<1> QED
  BY <1>1, <1>2, <1>3, LenProperties

\* The sum falls with one of its parts, or with the last two together.
LEMMA SumFalls ==
  ASSUME NEW a \in Nat, NEW b \in Nat, NEW c \in Nat, NEW d \in Nat,
         NEW p \in Nat, NEW q \in Nat, NEW r \in Nat, NEW s \in Nat, p <= a, q <= b,
         \/ r <= c /\ s <= d /\ (p < a \/ q < b \/ r < c \/ s < d)
         \/ r + s < c + d
  PROVE  p + q + r + s < a + b + c + d
  OBVIOUS

LEMMA RankFalls ==
  ASSUME RanksOK, RanksOK',
         SessionRank' < SessionRank \/ UNCHANGED SessionRank,
         WalkRank' < WalkRank \/ UNCHANGED WalkRank,
         \/ /\ AccessRank' < AccessRank \/ UNCHANGED AccessRank
            /\ StageRank' < StageRank \/ UNCHANGED StageRank
            /\ \/ SessionRank' < SessionRank \/ WalkRank' < WalkRank
               \/ AccessRank' < AccessRank \/ StageRank' < StageRank
         \/ AccessRank' + StageRank' < AccessRank + StageRank
  PROVE  ProgramRank' < ProgramRank
<1>1. ProgramRank' = SessionRank' + WalkRank' + AccessRank' + StageRank'
  BY Zenon DEF ProgramRank
<1>2. \A m, n \in Nat : m < n \/ m = n => m <= n
  OBVIOUS
<1>3. SessionRank' <= SessionRank /\ WalkRank' <= WalkRank
  BY <1>2, Zenon DEF RanksOK
<1>4. \/ /\ AccessRank' <= AccessRank /\ StageRank' <= StageRank
         /\ \/ SessionRank' < SessionRank \/ WalkRank' < WalkRank
            \/ AccessRank' < AccessRank \/ StageRank' < StageRank
      \/ AccessRank' + StageRank' < AccessRank + StageRank
  BY <1>2, Zenon DEF RanksOK
<1> QED
  <2>1. SessionRank' + WalkRank' + AccessRank' + StageRank'
          < SessionRank + WalkRank + AccessRank + StageRank
    <3>1. CASE AccessRank' + StageRank' < AccessRank + StageRank
      BY <1>3, <3>1, SumFalls, Zenon DEF RanksOK
    <3>2. CASE ~(AccessRank' + StageRank' < AccessRank + StageRank)
      BY <1>3, <1>4, <3>2, SumFalls, Zenon DEF RanksOK
    <3> QED
      BY <3>1, <3>2
  <2> QED
    BY <1>1, <2>1, Zenon DEF ProgramRank

\* Every step takes it down by one at least.
LEMMA StepDescends ==
  DriverInv /\ RanksOK /\ RanksOK' /\ [Next]_vars => (ProgramRank' < ProgramRank \/ UNCHANGED vars)
<1> SUFFICES ASSUME DriverInv, RanksOK, RanksOK', Next PROVE ProgramRank' < ProgramRank
  OBVIOUS
<1>1. /\ Len(calls) \in Nat /\ Len(todo) \in Nat /\ Len(SdSts) \in Nat /\ Len(<<>>) = 0
      /\ (calls # <<>> => Len(Tail(calls)) = Len(calls) - 1)
      /\ (todo # <<>> => Len(Tail(todo)) = Len(todo) - 1)
  BY Lengths
<1>2. /\ i \in 0..9 /\ (calls # <<>> /\ Head(calls) = "regions" => i <= 8)
      /\ count \in 0..MaxCaps + 2 /\ (pc = "walk" => count <= MaxCaps + 1)
      /\ tries \in 0..Attempts /\ listed \in 0..Len(SdSts)
      /\ (pc \notin {"msi", "access"} => todo = <<>>)
  BY ToSetTail DEF DriverInv, CallsInv, CountInv, FlowInv
<1>3. CASE Session
  <2>1. UNCHANGED <<WalkRank, AccessRank, StageRank>>
    BY <1>3 DEF Session, driverVars, walkVars, bootVars, ioVars, WalkRank, AccessRank, BootRank,
       StageRank
  <2>2. /\ calls # <<>>
        /\ \/ calls' = Tail(calls) /\ i' = i
           \/ calls' \in {calls, Tail(calls)} /\ i' = i + 1
    BY <1>3 DEF Session, SessionNext, Granted, Refused, Call, Region, NoRegions
  <2>3. SessionRank' < SessionRank
    BY <1>1, <1>2, <2>2 DEF SessionRank
  <2> QED
    BY <2>1, <2>3, RankFalls, Zenon
<1>4. CASE SessionOver
  <2>1. UNCHANGED <<SessionRank, WalkRank, BootRank>>
    BY <1>4 DEF SessionOver, sessionVars, walkVars, bootVars, SessionRank, WalkRank, BootRank
  <2>2. /\ pc = "session" /\ todo = <<>>
        /\ \/ pc' = "llch" /\ todo' = <<>>
           \/ pc' = "access" /\ todo' \in {<<>>, vfio_boot_main}
    BY <1>2, <1>4 DEF SessionOver, FlowInv, CallsInv, DriverInv
  <2>3. Len(todo') \in 0..2 /\ (pc' = "llch" => Len(todo') = 0) /\ pc' \in {"llch", "access"}
    <3>1. Len(vfio_boot_main) = 2
      BY DEF vfio_boot_main
    <3> QED
      BY <1>1, <2>2, <3>1
  <2>4. /\ StageRank = Len(SdSts) + 21
        /\ StageRank' = Len(SdSts) + 20 \/ StageRank' = 1
        /\ StageRank' # 1 => Len(todo') = 0
    BY <1>1, <2>2, <2>3 DEF StageRank
  <2>5. AccessRank' = BootRank + Len(todo') /\ AccessRank = BootRank + 0
    BY <1>1, <2>1, <2>2, Zenon DEF AccessRank
  <2>6. AccessRank' + StageRank' < AccessRank + StageRank
    <3>1. PICK k \in 0..2, b \in Nat : k = Len(todo') /\ b = BootRank
      BY <2>3, Zenon DEF RanksOK
    <3>2. AccessRank' = b + k /\ AccessRank = b
      BY <2>5, <3>1
    <3>3. PICK n \in Nat : n = Len(SdSts)
      BY <1>1, Zenon
    <3>4. StageRank = n + 21 /\ ((StageRank' = n + 20 /\ k = 0) \/ StageRank' = 1)
      BY <2>4, <3>1, <3>3
    <3>5. b + k + 1 < b + n + 21 /\ b + 0 + (n + 20) < b + (n + 21)
      OBVIOUS
    <3> QED
      BY <3>2, <3>4, <3>5
  <2> QED
    BY <2>1, <2>6, RankFalls, Zenon
<1>5. CASE hda_dsp_ctrl_get_caps
  <2>1. UNCHANGED <<SessionRank, AccessRank>>
    BY <1>5 DEF hda_dsp_ctrl_get_caps, bootVars, ioVars, SessionRank, AccessRank, BootRank
  <2>2. \/ pc = "llch" /\ pc' = "walk" /\ count' = count
        \/ pc = "walk" /\ pc' \in {"walk", "walked"} /\ count' = count + 1
    BY <1>5 DEF hda_dsp_ctrl_get_caps, W!ReadStart, W!StartFails, W!Start, W!ReadHeader,
       W!HeaderFails, W!Visit, W!Counted
  <2>3. /\ WalkRank' < WalkRank \/ UNCHANGED WalkRank
        /\ StageRank' < StageRank \/ UNCHANGED StageRank
        /\ WalkRank' < WalkRank \/ StageRank' < StageRank
    BY <1>1, <1>2, <2>2, LimitsAssumption DEF WalkRank, StageRank
  <2> QED
    BY <2>1, <2>3, RankFalls, Zenon
<1>6. CASE hda_dsp_stream_init
  <2>1. UNCHANGED <<SessionRank, WalkRank, BootRank>>
    BY <1>6 DEF hda_dsp_stream_init, walkVars, bootVars, SessionRank, WalkRank, BootRank
  <2>2. /\ pc = "walked" /\ pc' = "msi" /\ todo = <<>> /\ todo' = main(listed')
        /\ listed' \in 0..Len(SdSts)
    BY <1>1, <1>2, <1>6 DEF hda_dsp_stream_init
  <2>3. Len(main(listed')) \in 0..Len(SdSts) + 15
    BY <2>2, MainLength
  <2>4. AccessRank' + StageRank' < AccessRank + StageRank
    BY <1>1, <2>1, <2>2, <2>3 DEF AccessRank, StageRank, RanksOK
  <2> QED
    BY <2>1, <2>4, RankFalls, Zenon
<1>7. CASE irq_enable \/ Exit
  <2>1. UNCHANGED <<SessionRank, WalkRank, AccessRank>>
    BY <1>7 DEF irq_enable, Exit, sessionVars, walkVars, bootVars, ioVars, SessionRank, WalkRank,
       AccessRank, BootRank
  <2>2. StageRank' < StageRank
    BY <1>7 DEF irq_enable, Exit, StageRank
  <2> QED
    BY <2>1, <2>2, RankFalls, Zenon
<1>8. ASSUME NEW a, NextAccess(a) PROVE ProgramRank' < ProgramRank
  <2>1. UNCHANGED <<SessionRank, WalkRank, StageRank, BootRank>>
    BY <1>8 DEF NextAccess, walkVars, bootVars, SessionRank, WalkRank, BootRank, StageRank
  <2>2. AccessRank' < AccessRank
    BY <1>1, <1>8, <2>1 DEF NextAccess, AccessRank, RanksOK
  <2> QED
    BY <2>1, <2>2, RankFalls, Zenon
<1>9. CASE hda_dsp_cl_boot_firmware
  <2>1. UNCHANGED <<SessionRank, WalkRank, StageRank>>
    BY <1>9 DEF hda_dsp_cl_boot_firmware, sessionVars, walkVars, SessionRank, WalkRank, StageRank
  <2>2. ASSUME Prepare PROVE AccessRank' < AccessRank
    <3>1. /\ phase = "preparing" /\ phase' \in {"trying", "done"} /\ tries' = tries
          /\ todo' = todo \/ \E s \in {PrepareStream, <<Decouple>>} : todo' = s \o todo
      BY <2>2 DEF Prepare, B!Prepare
    <3>2. Len(todo') \in 0..Len(todo) + 4
      BY <1>1, <3>1, PrepareLength
    <3>3. BootRank = Attempts + 6 /\ BootRank' \in 0..Attempts + 1
      BY <1>2, <3>1, LimitsAssumption DEF BootRank
    <3> QED
      BY <1>1, <3>2, <3>3, LimitsAssumption DEF AccessRank
  <2>3. ASSUME Attempt PROVE AccessRank' < AccessRank
    BY <1>1, <1>2, <2>3, LimitsAssumption
    DEF Attempt, B!TryFails, B!TrySucceeds, B!Load, AccessRank, BootRank
  <2>4. ASSUME Return PROVE AccessRank' < AccessRank
    BY <1>1, <1>9, <2>4 DEF Return, bootVars, hda_dsp_cl_boot_firmware, AccessRank, BootRank
  <2>5. AccessRank' < AccessRank
    BY <1>9, <2>2, <2>3, <2>4 DEF hda_dsp_cl_boot_firmware
  <2> QED
    BY <2>1, <2>5, RankFalls, Zenon
<1> QED
  BY <1>3, <1>4, <1>5, <1>6, <1>7, <1>8, <1>9, Zenon DEF Next, Done, Fails, Strays

\* Every program stops after a number of steps that grows with the limit of
\* the walk, the attempts of the boot and the streams and with nothing else:
\* whatever is refused, and however the device has linked its list.
THEOREM ProgramStops ==
  Spec => /\ ProgramRank <= (MaxCaps + Attempts + Len(SdSts)) + 53
          /\ [](ProgramRank \in Nat) /\ [][ProgramRank' < ProgramRank]_vars
<1>1. Init => ProgramRank <= (MaxCaps + Attempts + Len(SdSts)) + 53
  <2> SUFFICES ASSUME Init PROVE ProgramRank <= (MaxCaps + Attempts + Len(SdSts)) + 53
    OBVIOUS
  <2>1. Len(SdSts) \in Nat /\ Len(calls) \in Nat /\ Len(<<>>) = 0
    BY InitDriver, Lengths
  <2>2. Len(calls) <= 15 /\ i = 0
    <3>1. calls = Script[prog] /\ prog \in Programs /\ i = 0
      BY DEF Init, SessionInit
    <3>2. \A n \in {9, 10, 12, 13, 15} : n <= 15
      OBVIOUS
    <3> QED
      BY <3>1, <3>2, ScriptLengths, Zenon
  <2>3. /\ pc = "session" /\ count = 0 /\ todo = <<>>
        /\ phase = "preparing"
    BY DEF Init, B!Init
  <2> QED
    BY <2>1, <2>2, <2>3, LimitsAssumption
    DEF ProgramRank, SessionRank, WalkRank, AccessRank, BootRank, StageRank
<1>2. RanksOK => ProgramRank \in Nat
  BY DEF RanksOK, ProgramRank
<1> QED
  BY InitDriver, NextDriver, RanksInRange, StepDescends, <1>1, <1>2, PTL DEF Spec
=============================================================================
