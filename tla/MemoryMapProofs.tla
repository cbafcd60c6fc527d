-------------------------- MODULE MemoryMapProofs --------------------------
(***************************************************************************)
(* For every set of slots and every sequence of switches the page maps are *)
(* a function of the switches, although the code never computes them so.   *)
(* Canonical(flags) is that function, written down page by page; the       *)
(* incremental update takes Canonical(register) to Canonical(flags), and   *)
(* rebuilding the maps yields Canonical(flags) too.                        *)
(***************************************************************************)
EXTENDS MemoryMap, TLAPS

IoPages == {"C0", "C3", "C8"} \union SlotPages
CardPages == {"C3", "C8"} \union SlotPages

Canonical00(flags) ==
    [p \in Pages |->
        CASE p = "00" -> Selects(MainAux(0, p), "ALTZPLC", "ALTZPLC", flags)
          [] p \in {"04", "20"} -> VideoPage(p, MainAux(0, p), flags)
          [] p \in RamPages -> Selects(MainAux(0, p), "RAMRD", "RAMWRT", flags)
          [] p \in {"C0", "C3", "C8"} \union SlotPages -> IoPage(0, p, flags)
          [] p \in LcPages -> LcPage(Aux("ALTZPLC", flags), p, flags)]

Canonical01(flags) ==
    [p \in Pages |->
        CASE p \in {"C0", "C3", "C8"} \union SlotPages -> IoPage(1, p, flags)
          [] p \in LcPages -> LcPage(1, p, flags)
          [] OTHER -> MainAux(1, p)]

CanonicalMega2(bank, flags) ==
    [p \in Pages |->
        CASE p = "C0" -> [Direct(bank, p) EXCEPT !.kind = "io"]
          [] p \in {"C3", "C8"} \union SlotPages -> RomPage(bank, p, flags)
          [] p \in LcPages -> LcMega2Page(p, Direct(bank, p), flags)
          [] OTHER -> Direct(bank, p)]

CanonicalShadow0(flags) == [p \in ShadowPages |-> Shadowed0(p, flags)]
CanonicalShadow1(flags) == [p \in ShadowPages |-> Shadowed1(p, flags)]

Canonical(flags) ==
    [b00 |-> Canonical00(flags), b01 |-> Canonical01(flags),
     be0 |-> CanonicalMega2(224, flags), be1 |-> CanonicalMega2(225, flags),
     sh0 |-> CanonicalShadow0(flags), sh1 |-> CanonicalShadow1(flags)]

-----------------------------------------------------------------------------
(* The switches that an update does not reconsider have not changed.       *)
LEMMA SameSwitch ==
    ASSUME NEW r, NEW f, NEW s, s \notin Differ(r, f)
    PROVE  /\ s \in r <=> s \in f
           /\ Aux(s, r) = Aux(s, f)
BY DEF Differ, Aux

(* The same, for a set of switches.                                        *)
LEMMA SameSwitches ==
    ASSUME NEW r, NEW f, NEW set, Differ(r, f) \intersect set = {}
    PROVE  /\ \A s \in set : s \in r <=> s \in f
           /\ r \intersect set = f \intersect set
BY DEF Differ

(* Selecting banks forgets what was selected before.                       *)
LEMMA SelectsAgain ==
    ASSUME NEW bank, NEW page, NEW r, NEW f, NEW a, NEW b, NEW c, NEW d
    PROVE  Selects(Selects(MainAux(bank, page), a, b, r), c, d, f)
             = Selects(MainAux(bank, page), c, d, f)
BY DEF Selects, MainAux, Mapping

(* A page of the display is computed from where its bank is, not from its
   last map. *)
LEMMA VideoPageAgain ==
    ASSUME NEW bank, NEW page, NEW r, NEW f
    PROVE  VideoPage(page, VideoPage(page, MainAux(bank, page), r), f)
             = VideoPage(page, MainAux(bank, page), f)
BY SelectsAgain DEF VideoPage

(* So is a page of the language card in the banks of the Mega II.          *)
LEMMA LcMega2Again ==
    ASSUME NEW bank, NEW page, NEW r, NEW f
    PROVE  LcMega2Page(page, LcMega2Page(page, Direct(bank, page), r), f)
             = LcMega2Page(page, Direct(bank, page), f)
BY DEF LcMega2Page, Direct, Mapping

(* What a page of each kind is mapped to depends on few switches.          *)
LEMMA SameVideoPage ==
    ASSUME NEW r, NEW f, NEW page, NEW p, Differ(r, f) \intersect OLDVIDEO = {}
    PROVE  VideoPage(page, p, r) = VideoPage(page, p, f)
<1>1. \A s \in OLDVIDEO : s \in r <=> s \in f
    BY SameSwitches
<1> QED BY <1>1 DEF VideoPage, Selects, Aux, OLDVIDEO

(* The slot ROM of E0 and E1 depends on the slot switches only.            *)
LEMMA SameRomPage ==
    ASSUME NEW r, NEW f, NEW bank, NEW page, Differ(r, f) \intersect CROM = {}
    PROVE  RomPage(bank, page, r) = RomPage(bank, page, f)
<1>1. \A s \in CROM : s \in r <=> s \in f
    BY SameSwitches
<1> QED BY <1>1 DEF RomPage, IsInternal, CROM

(* The I/O and slot pages of 00 and 01 depend on NIOLC, too.               *)
LEMMA SameIoPage ==
    ASSUME NEW r, NEW f, NEW bank, NEW page,
           Differ(r, f) \intersect ({"NIOLC"} \union CROM) = {}
    PROVE  IoPage(bank, page, r) = IoPage(bank, page, f)
<1>1. RomPage(bank, page, r) = RomPage(bank, page, f)
    BY SameRomPage
<1>2. "NIOLC" \in r <=> "NIOLC" \in f
    BY SameSwitch
<1> QED BY <1>1, <1>2 DEF IoPage

(* The language card depends on the switches that make its pages stale.    *)
LEMMA SameLcPage ==
    ASSUME NEW r, NEW f, NEW bank, NEW page, ~LcStale(Differ(r, f))
    PROVE  /\ LcPage(bank, page, r) = LcPage(bank, page, f)
           /\ Aux("ALTZPLC", r) = Aux("ALTZPLC", f)
           /\ \A p : LcMega2Page(page, p, r) = LcMega2Page(page, p, f)
<1>1. Differ(r, f) \intersect (LC \union {"ALTZPLC", "NIOLC"}) = {}
    BY DEF LcStale
<1>2. \A s \in LC \union {"ALTZPLC", "NIOLC"} : s \in r <=> s \in f
    BY <1>1 DEF Differ
<1>3. /\ r \intersect {"NIOLC", "RDLCRAM"} = f \intersect {"NIOLC", "RDLCRAM"}
      /\ r \intersect {"NIOLC", "LCBANK2"} = f \intersect {"NIOLC", "LCBANK2"}
      /\ r \intersect {"NIOLC", "WRLCRAM"} = f \intersect {"NIOLC", "WRLCRAM"}
      /\ "LCBANK2" \in r <=> "LCBANK2" \in f
    BY <1>2 DEF LC
<1>4. LcPage(bank, page, r) = LcPage(bank, page, f)
    BY <1>3 DEF LcPage
<1>5. Aux("ALTZPLC", r) = Aux("ALTZPLC", f)
    BY <1>2 DEF Aux
<1>6. \A p : LcMega2Page(page, p, r) = LcMega2Page(page, p, f)
  <2>1. LcImage(page, "LCBANK2" \in r) = LcImage(page, "LCBANK2" \in f)
      BY <1>3 DEF LcImage
  <2> QED BY <2>1 DEF LcMega2Page
<1> QED BY <1>4, <1>5, <1>6

-----------------------------------------------------------------------------
(* The four page maps, page by page.                                       *)
LEMMA PageKinds ==
    ASSUME NEW p \in Pages
    PROVE  \/ p = "00"
           \/ p \in {"04", "20"}
           \/ p \in RamPages
           \/ p \in {"C0", "C3", "C8"} \union SlotPages
           \/ p \in LcPages
BY DEF Pages, FixedPages, LcPages

(* The canonical map of bank 00, page by page.                             *)
LEMMA Canonical00At ==
    ASSUME NEW flags, NEW p \in Pages
    PROVE  /\ p = "00" => Canonical00(flags)[p] = Selects(MainAux(0, p), "ALTZPLC", "ALTZPLC", flags)
           /\ p \in {"04", "20"} => Canonical00(flags)[p] = VideoPage(p, MainAux(0, p), flags)
           /\ p \in RamPages => Canonical00(flags)[p] = Selects(MainAux(0, p), "RAMRD", "RAMWRT", flags)
           /\ p \in {"C0", "C3", "C8"} \union SlotPages => Canonical00(flags)[p] = IoPage(0, p, flags)
           /\ p \in LcPages => Canonical00(flags)[p] = LcPage(Aux("ALTZPLC", flags), p, flags)
BY SlotsAssumption DEF Canonical00, RamPages, LcPages, FixedPages

(* What an update does to bank 00, page by page.                           *)
LEMMA Bank00At ==
    ASSUME NEW old, NEW ch, NEW f, NEW p \in Pages
    PROVE  /\ p = "00" =>
                Bank00(old, ch, f)[p] =
                  IF "ALTZPLC" \in ch THEN Selects(old[p], "ALTZPLC", "ALTZPLC", f) ELSE old[p]
           /\ p \in {"04", "20"} =>
                Bank00(old, ch, f)[p] =
                  IF ch \intersect OLDVIDEO # {} THEN VideoPage(p, old[p], f) ELSE old[p]
           /\ p \in RamPages =>
                Bank00(old, ch, f)[p] =
                  IF ch \intersect {"RAMRD", "RAMWRT"} # {}
                  THEN Selects(old[p], "RAMRD", "RAMWRT", f) ELSE old[p]
           /\ p \in {"C0", "C3", "C8"} \union SlotPages =>
                Bank00(old, ch, f)[p] =
                  IF ch \intersect ({"NIOLC"} \union CROM) # {} THEN IoPage(0, p, f) ELSE old[p]
           /\ p \in LcPages =>
                Bank00(old, ch, f)[p] =
                  IF LcStale(ch) THEN LcPage(Aux("ALTZPLC", f), p, f) ELSE old[p]
BY SlotsAssumption DEF Bank00, RamPages, LcPages, FixedPages

(* An update of bank 00 leads from one canonical map to the next.          *)
LEMMA StepBank00 ==
    ASSUME NEW r, NEW f
    PROVE  Bank00(Canonical00(r), Differ(r, f), f) = Canonical00(f)
<1> SUFFICES ASSUME NEW p \in Pages
             PROVE  Bank00(Canonical00(r), Differ(r, f), f)[p] = Canonical00(f)[p]
    BY DEF Bank00, Canonical00
<1>1. CASE p = "00"
  <2>1. CASE "ALTZPLC" \in Differ(r, f)
      BY <1>1, <2>1, Bank00At, Canonical00At, SelectsAgain
  <2>2. CASE "ALTZPLC" \notin Differ(r, f)
    <3>1. Aux("ALTZPLC", r) = Aux("ALTZPLC", f)
        BY <2>2, SameSwitch
    <3>2. Selects(MainAux(0, p), "ALTZPLC", "ALTZPLC", r) = Selects(MainAux(0, p), "ALTZPLC", "ALTZPLC", f)
        BY <3>1 DEF Selects
    <3> QED BY <1>1, <2>2, <3>2, Bank00At, Canonical00At
  <2> QED BY <2>1, <2>2
<1>2. CASE p \in {"04", "20"}
  <2>1. CASE Differ(r, f) \intersect OLDVIDEO # {}
      BY <1>2, <2>1, Bank00At, Canonical00At, VideoPageAgain
  <2>2. CASE Differ(r, f) \intersect OLDVIDEO = {}
      BY <1>2, <2>2, Bank00At, Canonical00At, SameVideoPage
  <2> QED BY <2>1, <2>2
<1>3. CASE p \in RamPages
  <2>1. CASE Differ(r, f) \intersect {"RAMRD", "RAMWRT"} # {}
      BY <1>3, <2>1, Bank00At, Canonical00At, SelectsAgain
  <2>2. CASE Differ(r, f) \intersect {"RAMRD", "RAMWRT"} = {}
    <3>1. Aux("RAMRD", r) = Aux("RAMRD", f) /\ Aux("RAMWRT", r) = Aux("RAMWRT", f)
        BY <2>2, SameSwitch
    <3>2. Selects(MainAux(0, p), "RAMRD", "RAMWRT", r) = Selects(MainAux(0, p), "RAMRD", "RAMWRT", f)
        BY <3>1 DEF Selects
    <3> QED BY <1>3, <2>2, <3>2, Bank00At, Canonical00At
  <2> QED BY <2>1, <2>2
<1>4. CASE p \in {"C0", "C3", "C8"} \union SlotPages
  <2>1. CASE Differ(r, f) \intersect ({"NIOLC"} \union CROM) # {}
      BY <1>4, <2>1, Bank00At, Canonical00At
  <2>2. CASE Differ(r, f) \intersect ({"NIOLC"} \union CROM) = {}
      BY <1>4, <2>2, Bank00At, Canonical00At, SameIoPage
  <2> QED BY <2>1, <2>2
<1>5. CASE p \in LcPages
  <2>1. CASE LcStale(Differ(r, f))
      BY <1>5, <2>1, Bank00At, Canonical00At
  <2>2. CASE ~LcStale(Differ(r, f))
    <3>1. Canonical00(r)[p] = LcPage(Aux("ALTZPLC", r), p, r)
        BY <1>5, Canonical00At
    <3>2. Canonical00(f)[p] = LcPage(Aux("ALTZPLC", f), p, f)
        BY <1>5, Canonical00At
    <3>3. Aux("ALTZPLC", r) = Aux("ALTZPLC", f)
        BY <2>2, SameLcPage
    <3>4. LcPage(Aux("ALTZPLC", f), p, r) = LcPage(Aux("ALTZPLC", f), p, f)
        BY <2>2, SameLcPage
    <3> QED BY <1>5, <2>2, <3>1, <3>2, <3>3, <3>4, Bank00At
  <2> QED BY <2>1, <2>2
<1> QED BY <1>1, <1>2, <1>3, <1>4, <1>5, PageKinds

(* So does an update of bank 01.                                           *)
LEMMA StepBank01 ==
    ASSUME NEW r, NEW f
    PROVE  Bank01(Canonical01(r), Differ(r, f), f) = Canonical01(f)
<1> SUFFICES ASSUME NEW p \in Pages
             PROVE  Bank01(Canonical01(r), Differ(r, f), f)[p] = Canonical01(f)[p]
    BY DEF Bank01, Canonical01
<1>1. CASE p \in {"C0", "C3", "C8"} \union SlotPages
  <2>1. Canonical01(r)[p] = IoPage(1, p, r) /\ Canonical01(f)[p] = IoPage(1, p, f)
      BY <1>1, SlotsAssumption DEF Canonical01, LcPages, FixedPages
  <2>2. Bank01(Canonical01(r), Differ(r, f), f)[p] =
          IF Differ(r, f) \intersect ({"NIOLC"} \union CROM) # {} THEN IoPage(1, p, f)
          ELSE Canonical01(r)[p]
      BY <1>1, SlotsAssumption DEF Bank01, LcPages, FixedPages
  <2> QED BY <2>1, <2>2, SameIoPage
<1>2. CASE p \in LcPages
  <2>1. Canonical01(r)[p] = LcPage(1, p, r) /\ Canonical01(f)[p] = LcPage(1, p, f)
      BY <1>2, SlotsAssumption DEF Canonical01, LcPages, FixedPages
  <2>2. Bank01(Canonical01(r), Differ(r, f), f)[p] =
          IF LcStale(Differ(r, f)) THEN LcPage(1, p, f) ELSE Canonical01(r)[p]
      BY <1>2, SlotsAssumption DEF Bank01, LcPages, FixedPages
  <2> QED BY <2>1, <2>2, SameLcPage
<1>3. CASE p \notin {"C0", "C3", "C8"} \union SlotPages /\ p \notin LcPages
    BY <1>3 DEF Bank01, Canonical01
<1> QED BY <1>1, <1>2, <1>3

(* So does an update of E0 and of E1.                                      *)
LEMMA StepMega2 ==
    ASSUME NEW r, NEW f, NEW bank
    PROVE  Mega2Bank(bank, CanonicalMega2(bank, r), Differ(r, f), f) = CanonicalMega2(bank, f)
<1> SUFFICES ASSUME NEW p \in Pages
             PROVE  Mega2Bank(bank, CanonicalMega2(bank, r), Differ(r, f), f)[p] = CanonicalMega2(bank, f)[p]
    BY DEF Mega2Bank, CanonicalMega2
<1>1. CASE p \in {"C3", "C8"} \union SlotPages
  <2>1. /\ CanonicalMega2(bank, r)[p] = RomPage(bank, p, r)
        /\ CanonicalMega2(bank, f)[p] = RomPage(bank, p, f)
      BY <1>1, SlotsAssumption DEF CanonicalMega2, LcPages, FixedPages
  <2>2. Mega2Bank(bank, CanonicalMega2(bank, r), Differ(r, f), f)[p] =
          IF Differ(r, f) \intersect CROM # {} THEN RomPage(bank, p, f)
          ELSE CanonicalMega2(bank, r)[p]
      BY <1>1, SlotsAssumption DEF Mega2Bank, LcPages, FixedPages
  <2> QED BY <2>1, <2>2, SameRomPage
<1>2. CASE p \in LcPages
  <2>1. /\ CanonicalMega2(bank, r)[p] = LcMega2Page(p, Direct(bank, p), r)
        /\ CanonicalMega2(bank, f)[p] = LcMega2Page(p, Direct(bank, p), f)
      BY <1>2, SlotsAssumption DEF CanonicalMega2, LcPages, FixedPages
  <2>2. Mega2Bank(bank, CanonicalMega2(bank, r), Differ(r, f), f)[p] =
          IF LcStale(Differ(r, f)) THEN LcMega2Page(p, CanonicalMega2(bank, r)[p], f)
          ELSE CanonicalMega2(bank, r)[p]
      BY <1>2, SlotsAssumption DEF Mega2Bank, LcPages, FixedPages
  <2>3. CASE LcStale(Differ(r, f))
      BY <2>1, <2>2, <2>3, LcMega2Again
  <2>4. CASE ~LcStale(Differ(r, f))
      BY <2>1, <2>2, <2>4, SameLcPage
  <2> QED BY <2>3, <2>4
<1>3. CASE p \notin {"C3", "C8"} \union SlotPages /\ p \notin LcPages
    BY <1>3, SlotsAssumption DEF Mega2Bank, CanonicalMega2, FixedPages
<1> QED BY <1>1, <1>2, <1>3

-----------------------------------------------------------------------------
(* The shadow maps, and the whole update.                                  *)
LEMMA SameShadow ==
    ASSUME NEW r, NEW f, NEW p \in ShadowPages,
           Differ(r, f) \intersect ShadowSwitches(p) = {}
    PROVE  /\ Shadowed0(p, r) = Shadowed0(p, f)
           /\ Shadowed1(p, r) = Shadowed1(p, f)
<1>1. \A s \in ShadowSwitches(p) : s \in r <=> s \in f
    BY SameSwitches
<1>2. CASE p = "04"
    BY <1>1, <1>2 DEF ShadowSwitches, Shadowed0, Shadowed1
<1>3. CASE p = "08"
    BY <1>1, <1>3 DEF ShadowSwitches, Shadowed0, Shadowed1
<1>4. CASE p = "20"
    BY <1>1, <1>4 DEF ShadowSwitches, Shadowed0, Shadowed1
<1>5. CASE p = "40"
    BY <1>1, <1>5 DEF ShadowSwitches, Shadowed0, Shadowed1
<1>6. CASE p = "60"
    BY <1>1, <1>6 DEF ShadowSwitches, Shadowed0, Shadowed1
<1> QED BY <1>2, <1>3, <1>4, <1>5, <1>6 DEF ShadowPages

(* So does an update of the shadow maps.                                   *)
LEMMA StepShadow ==
    ASSUME NEW r, NEW f
    PROVE  /\ ShadowMap0(CanonicalShadow0(r), Differ(r, f), f) = CanonicalShadow0(f)
           /\ ShadowMap1(CanonicalShadow1(r), Differ(r, f), f) = CanonicalShadow1(f)
<1>1. ASSUME NEW p \in ShadowPages
      PROVE  ShadowMap0(CanonicalShadow0(r), Differ(r, f), f)[p] = CanonicalShadow0(f)[p]
  <2>1. CASE p = "60"
      BY <2>1 DEF ShadowMap0, CanonicalShadow0, Shadowed0
  <2>2. CASE p # "60"
      BY <2>2, SameShadow DEF ShadowMap0, CanonicalShadow0
  <2> QED BY <2>1, <2>2
<1>2. ASSUME NEW p \in ShadowPages
      PROVE  ShadowMap1(CanonicalShadow1(r), Differ(r, f), f)[p] = CanonicalShadow1(f)[p]
    BY SameShadow DEF ShadowMap1, CanonicalShadow1
<1> QED BY <1>1, <1>2 DEF ShadowMap0, ShadowMap1, CanonicalShadow0, CanonicalShadow1

(* If no shadow switch changed, the maps need no update.                   *)
LEMMA ShadowsKept ==
    ASSUME NEW r, NEW f,
           Differ(r, f) \intersect (NSHADOW \union {"NIOLC", "RAMWRT", "TXTPAGE2"}) = {}
    PROVE  CanonicalShadow0(r) = CanonicalShadow0(f) /\ CanonicalShadow1(r) = CanonicalShadow1(f)
<1>1. ASSUME NEW p \in ShadowPages
      PROVE  Differ(r, f) \intersect ShadowSwitches(p) = {}
  <2>1. ShadowSwitches(p) \subseteq NSHADOW
      BY DEF ShadowSwitches, NSHADOW, ShadowPages
  <2> QED BY <2>1
<1> QED BY <1>1, SameShadow DEF CanonicalShadow0, CanonicalShadow1

(* One update of everything.                                               *)
LEMMA StepCanonical ==
    ASSUME NEW r, NEW f
    PROVE  Remapped(Canonical(r), r, f) = Canonical(f)
BY StepBank00, StepBank01, StepMega2, StepShadow, ShadowsKept DEF Remapped, Canonical

-----------------------------------------------------------------------------
(* Rebuilding.  With every switch reconsidered, what was mapped before     *)
(* matters only for what no switch concerns, and there the maps of any     *)
(* moment agree with the initial ones.                                     *)
UnswitchedMega2(bank, old) ==
    /\ \A p \in Pages \ (CardPages \union LcPages) : old[p] = CanonicalMega2(bank, {})[p]
    /\ \A p \in LcPages : LcMega2Page(p, old[p], {}) = LcMega2Page(p, Direct(bank, p), {})

Unswitched(m) ==
    /\ \A p \in {"00", "04", "20"} \union RamPages :
          \A a, b : Selects(m.b00[p], a, b, {}) = Selects(MainAux(0, p), a, b, {})
    /\ \A p \in Pages \ (IoPages \union LcPages) : m.b01[p] = MainAux(1, p)
    /\ UnswitchedMega2(224, m.be0)
    /\ UnswitchedMega2(225, m.be1)
    /\ m.sh0["60"] = FALSE

(* A restore treats every switch as changed.                               *)
LEMMA AllChanged == Differ(Flags, {}) = Flags
BY DEF Differ

(* With every switch changed, bank 00 does not depend on its old map.      *)
LEMMA ClearBank00 ==
    ASSUME NEW old,
           \A p \in {"00", "04", "20"} \union RamPages :
              \A a, b : Selects(old[p], a, b, {}) = Selects(MainAux(0, p), a, b, {})
    PROVE  Bank00(old, Flags, {}) = Canonical00({})
<1> SUFFICES ASSUME NEW p \in Pages
             PROVE  Bank00(old, Flags, {})[p] = Canonical00({})[p]
    BY DEF Bank00, Canonical00
<1>0. /\ "ALTZPLC" \in Flags
      /\ Flags \intersect OLDVIDEO # {}
      /\ Flags \intersect {"RAMRD", "RAMWRT"} # {}
      /\ Flags \intersect ({"NIOLC"} \union CROM) # {}
      /\ LcStale(Flags)
    BY DEF Flags, OLDVIDEO, CROM, LcStale
<1>1. CASE p = "00"
    BY <1>0, <1>1, Bank00At, Canonical00At
<1>2. CASE p \in {"04", "20"}
  <2>1. VideoPage(p, old[p], {}) = VideoPage(p, MainAux(0, p), {})
      BY <1>2 DEF VideoPage
  <2> QED BY <1>0, <1>2, <2>1, Bank00At, Canonical00At
<1>3. CASE p \in RamPages
  <2>1. Bank00(old, Flags, {})[p] = Selects(old[p], "RAMRD", "RAMWRT", {})
      BY <1>0, <1>3, Bank00At
  <2>2. Canonical00({})[p] = Selects(MainAux(0, p), "RAMRD", "RAMWRT", {})
      BY <1>3, Canonical00At
  <2> QED BY <1>3, <2>1, <2>2
<1>4. CASE p \in {"C0", "C3", "C8"} \union SlotPages
    BY <1>0, <1>4, Bank00At, Canonical00At
<1>5. CASE p \in LcPages
    BY <1>0, <1>5, Bank00At, Canonical00At
<1> QED BY <1>1, <1>2, <1>3, <1>4, <1>5, PageKinds

(* Nor does bank 01.                                                       *)
LEMMA ClearBank01 ==
    ASSUME NEW old, \A p \in Pages \ (IoPages \union LcPages) : old[p] = MainAux(1, p)
    PROVE  Bank01(old, Flags, {}) = Canonical01({})
<1> SUFFICES ASSUME NEW p \in Pages
             PROVE  Bank01(old, Flags, {})[p] = Canonical01({})[p]
    BY DEF Bank01, Canonical01
<1>0. Flags \intersect ({"NIOLC"} \union CROM) # {} /\ LcStale(Flags)
    BY DEF Flags, LcStale
<1> QED BY <1>0, SlotsAssumption DEF Bank01, Canonical01, IoPages, LcPages, FixedPages

(* Nor do E0 and E1.                                                       *)
LEMMA ClearMega2 ==
    ASSUME NEW bank, NEW old, UnswitchedMega2(bank, old)
    PROVE  Mega2Bank(bank, old, Flags, {}) = CanonicalMega2(bank, {})
<1> SUFFICES ASSUME NEW p \in Pages
             PROVE  Mega2Bank(bank, old, Flags, {})[p] = CanonicalMega2(bank, {})[p]
    BY DEF Mega2Bank, CanonicalMega2
<1>0. Flags \intersect CROM # {} /\ LcStale(Flags)
    BY DEF Flags, CROM, LcStale
<1>1. CASE p \in CardPages
    BY <1>0, <1>1, SlotsAssumption DEF Mega2Bank, CanonicalMega2, CardPages, LcPages, FixedPages
<1>2. CASE p \in LcPages
    BY <1>0, <1>2, SlotsAssumption
       DEF Mega2Bank, CanonicalMega2, UnswitchedMega2, LcPages, FixedPages
<1>3. CASE p \notin CardPages \union LcPages
  <2>1. Mega2Bank(bank, old, Flags, {})[p] = old[p]
      BY <1>3 DEF Mega2Bank, CardPages
  <2> QED BY <1>3, <2>1 DEF UnswitchedMega2
<1> QED BY <1>1, <1>2, <1>3

(* Nor do the shadow maps.                                                 *)
LEMMA ClearShadow ==
    ASSUME NEW old0, NEW old1, old0["60"] = FALSE
    PROVE  /\ ShadowMap0(old0, Flags, {}) = CanonicalShadow0({})
           /\ ShadowMap1(old1, Flags, {}) = CanonicalShadow1({})
<1>1. ASSUME NEW p \in ShadowPages
      PROVE  Flags \intersect ShadowSwitches(p) # {}
    BY DEF Flags, NSHADOW, ShadowSwitches, ShadowPages
<1>2. ASSUME NEW p \in ShadowPages
      PROVE  ShadowMap0(old0, Flags, {})[p] = CanonicalShadow0({})[p]
  <2>1. CASE p = "60"
      BY <2>1 DEF ShadowMap0, CanonicalShadow0, Shadowed0
  <2>2. CASE p # "60"
      BY <1>1, <2>2 DEF ShadowMap0, CanonicalShadow0
  <2> QED BY <2>1, <2>2
<1>3. ASSUME NEW p \in ShadowPages
      PROVE  ShadowMap1(old1, Flags, {})[p] = CanonicalShadow1({})[p]
    BY <1>1 DEF ShadowMap1, CanonicalShadow1
<1> QED BY <1>2, <1>3 DEF ShadowMap0, ShadowMap1, CanonicalShadow0, CanonicalShadow1

(* Hence a reset or the load of a snapshot leaves canonical maps.          *)
LEMMA Rebuilt ==
    ASSUME NEW m, NEW f, Unswitched(m)
    PROVE  RestoreMappings(m, f) = Canonical(f)
<1>1. Flags \intersect (NSHADOW \union {"NIOLC", "RAMWRT", "TXTPAGE2"}) # {}
    BY DEF Flags
<1>2. Remapped(m, Flags, {}) = Canonical({})
  <2>1. Bank00(m.b00, Flags, {}) = Canonical00({})
      BY ClearBank00 DEF Unswitched
  <2>2. Bank01(m.b01, Flags, {}) = Canonical01({})
      BY ClearBank01 DEF Unswitched
  <2>3. /\ Mega2Bank(224, m.be0, Flags, {}) = CanonicalMega2(224, {})
        /\ Mega2Bank(225, m.be1, Flags, {}) = CanonicalMega2(225, {})
      BY ClearMega2 DEF Unswitched
  <2>4. /\ ShadowMap0(m.sh0, Flags, {}) = CanonicalShadow0({})
        /\ ShadowMap1(m.sh1, Flags, {}) = CanonicalShadow1({})
      BY ClearShadow DEF Unswitched
  <2> QED BY <1>1, <2>1, <2>2, <2>3, <2>4, AllChanged DEF Remapped, Canonical
<1> QED BY <1>2, StepCanonical DEF RestoreMappings

(* The first maps are canonical.                                           *)
LEMMA InitiallyUnswitched ==
    ASSUME NEW f
    PROVE  InitPageMaps(f) = Canonical(f)
<1> DEFINE m == [b00 |-> [p \in Pages |-> MainAux(0, p)],
                 b01 |-> [p \in Pages |-> MainAux(1, p)],
                 be0 |-> InitialMega2(224),
                 be1 |-> InitialMega2(225),
                 sh0 |-> [p \in ShadowPages |-> FALSE],
                 sh1 |-> [p \in ShadowPages |-> FALSE]]
<1>1. \A p \in {"00", "04", "20"} \union RamPages : m.b00[p] = MainAux(0, p)
    BY DEF Pages, FixedPages
<1>2. \A p \in Pages : m.b01[p] = MainAux(1, p)
    OBVIOUS
<1>3. ASSUME NEW bank PROVE UnswitchedMega2(bank, InitialMega2(bank))
  <2>1. ASSUME NEW p \in Pages \ (CardPages \union LcPages)
        PROVE  InitialMega2(bank)[p] = CanonicalMega2(bank, {})[p]
      BY SlotsAssumption DEF InitialMega2, CanonicalMega2, CardPages, FixedPages
  <2>2. ASSUME NEW p \in LcPages
        PROVE  InitialMega2(bank)[p] = Direct(bank, p)
      BY SlotsAssumption DEF InitialMega2, LcPages, Pages, FixedPages
  <2> QED BY <2>1, <2>2 DEF UnswitchedMega2
<1>4. m.sh0["60"] = FALSE
    BY DEF ShadowPages
<1>5. Unswitched(m)
    BY <1>1, <1>2, <1>3, <1>4 DEF Unswitched
<1> HIDE DEF m
<1>6. RestoreMappings(m, f) = Canonical(f)
    BY <1>5, Rebuilt
<1> QED BY <1>6 DEF InitPageMaps, m

(* Canonical maps are ones that a restore can start from.                  *)
LEMMA CanonicalUnswitched ==
    ASSUME NEW r
    PROVE  Unswitched(Canonical(r))
<1>1. ASSUME NEW p \in {"00", "04", "20"} \union RamPages, NEW a, NEW b
      PROVE  Selects(Canonical00(r)[p], a, b, {}) = Selects(MainAux(0, p), a, b, {})
  <2>1. p \in Pages
      BY DEF Pages, FixedPages, RamPages
  <2>2. CASE p = "00"
      BY <2>1, <2>2, Canonical00At, SelectsAgain
  <2>3. CASE p \in {"04", "20"}
      BY <2>1, <2>3, Canonical00At, SelectsAgain DEF VideoPage
  <2>4. CASE p \in RamPages
      BY <2>1, <2>4, Canonical00At, SelectsAgain
  <2> QED BY <2>2, <2>3, <2>4
<1>2. \A p \in Pages \ (IoPages \union LcPages) : Canonical01(r)[p] = MainAux(1, p)
    BY DEF Canonical01, IoPages
<1>3. ASSUME NEW bank PROVE UnswitchedMega2(bank, CanonicalMega2(bank, r))
  <2>1. ASSUME NEW p \in Pages \ (CardPages \union LcPages)
        PROVE  CanonicalMega2(bank, r)[p] = CanonicalMega2(bank, {})[p]
      BY SlotsAssumption DEF CanonicalMega2, CardPages, FixedPages
  <2>2. ASSUME NEW p \in LcPages
        PROVE  CanonicalMega2(bank, r)[p] = LcMega2Page(p, Direct(bank, p), r)
      BY SlotsAssumption DEF CanonicalMega2, LcPages, Pages, FixedPages
  <2> QED BY <2>1, <2>2, LcMega2Again DEF UnswitchedMega2
<1>4. CanonicalShadow0(r)["60"] = FALSE
    BY DEF CanonicalShadow0, ShadowPages, Shadowed0
<1> QED BY <1>1, <1>2, <1>3, <1>4 DEF Unswitched, Canonical

-----------------------------------------------------------------------------
(* The inductive invariant: the maps are the canonical ones.               *)
IInv == maps = Canonical(mmap_register)

(* The page maps are a function of the switches, for every set of slots,   *)
(* every snapshot and every sequence of switches.                          *)
THEOREM MapsAreCanonical == Spec => []IInv
<1>1. Init => IInv
    BY InitiallyUnswitched DEF Init, IInv
<1>2. IInv /\ [Next]_vars => IInv'
  <2> SUFFICES ASSUME IInv, [Next]_vars PROVE IInv'
      OBVIOUS
  <2>1. ASSUME NEW f, Map(f) PROVE IInv'
      BY <2>1, StepCanonical DEF Map, IInv
  <2>2. ASSUME NEW flag \in Flags, SetSwitch(flag) \/ ClearSwitch(flag) PROVE IInv'
      BY <2>1, <2>2 DEF SetSwitch, ClearSwitch
  <2>3. ASSUME NEW cards \in SUBSET SlotPages, SlotRomSelect(cards) PROVE IInv'
      BY <2>1, <2>3 DEF SlotRomSelect
  <2>4. ASSUME NEW inhibited \in SUBSET (NSHADOW \union {"NIOLC"}), ShadowSet(inhibited)
        PROVE  IInv'
      BY <2>1, <2>4 DEF ShadowSet
  <2>5. ASSUME NEW selected \in SUBSET StateFlags, StateRegSet(selected) PROVE IInv'
      BY <2>1, <2>5 DEF StateRegSet
  <2>6. ASSUME NEW address \in LcAddresses, LcAccess(address) PROVE IInv'
      BY <2>1, <2>6 DEF LcAccess
  <2>7. ASSUME NEW address \in LcAddresses, LcWordAccess(address) PROVE IInv'
      BY <2>7, StepCanonical DEF LcWordAccess, IInv
  <2>8. ASSUME NEW address, OtherAccess(address) PROVE IInv'
      BY <2>8 DEF OtherAccess, IInv
  <2>9. CASE Reset
      BY <2>9, CanonicalUnswitched, Rebuilt DEF Reset, IInv
  <2>10. ASSUME NEW register, LoadSnapshot(register) PROVE IInv'
      BY <2>10, InitiallyUnswitched DEF LoadSnapshot, IInv
  <2>11. CASE UNCHANGED vars
      BY <2>11 DEF vars, IInv
  <2> QED BY <2>2, <2>3, <2>4, <2>5, <2>6, <2>7, <2>8, <2>9, <2>10, <2>11 DEF Next
<1> QED BY <1>1, <1>2, PTL DEF Spec

(* The incremental update of _clem_mmio_memory_map forgets no page: the    *)
(* maps are always those of a machine started with the same switches.      *)
THEOREM PathIndependence == Spec => []MapsMatchSwitches
<1>1. IInv => MapsMatchSwitches
    BY InitiallyUnswitched DEF IInv, MapsMatchSwitches
<1> QED BY <1>1, MapsAreCanonical, PTL

-----------------------------------------------------------------------------
(* The address the switches compare with is that of the last data access.  *)
LastIsPrior == last_data_address = prior /\ prior \in LcAddresses \union {OtherAddress}

(* last_data_address is the address of the previous data access, always.   *)
LEMMA LastIsPriorAlways == Spec => []LastIsPrior
<1>1. Init => LastIsPrior
    BY DEF Init, LastIsPrior
<1>2. LastIsPrior /\ [Next]_vars => LastIsPrior'
  <2> SUFFICES ASSUME LastIsPrior, [Next]_vars PROVE LastIsPrior'
      OBVIOUS
  <2>1. ASSUME NEW address \in LcAddresses \union {OtherAddress}, Ended(address)
        PROVE  LastIsPrior'
      BY <2>1 DEF Ended, LastIsPrior
  <2>2. CASE UNCHANGED <<last_data_address, prior>>
      BY <2>2 DEF LastIsPrior
  <2> QED BY <2>1, <2>2 DEF Next, SetSwitch, ClearSwitch, SlotRomSelect, ShadowSet, StateRegSet,
             LcAccess, LcWordAccess, OtherAccess, Reset, LoadSnapshot, vars
<1> QED BY <1>1, <1>2, PTL DEF Spec

(* A switch that enables writes found its own, odd, address again.         *)
LEMMA SelectEnables ==
    ASSUME NEW register, NEW address, NEW last,
           "WRLCRAM" \notin register, "WRLCRAM" \in BankSelect(register, address, last)
    PROVE  last = address /\ EnablesWrites(address)
BY DEF BankSelect, LC

(* No sequence of accesses enables writes to the language card unless an   *)
(* odd switch follows directly upon itself.                                *)
THEOREM WriteEnableGuarded == Spec => WriteEnableNeedsTwo
<1>1. LastIsPrior /\ [Next]_vars =>
        [ /\ "WRLCRAM" \notin mmap_register
          /\ \E address \in LcAddresses : LcAccess(address) \/ LcWordAccess(address)
          /\ "WRLCRAM" \in mmap_register'
          => prior % 2 = 1 /\ prior' \in {prior, prior + 1} ]_vars
  <2> SUFFICES ASSUME LastIsPrior, "WRLCRAM" \notin mmap_register, "WRLCRAM" \in mmap_register',
                      NEW address \in LcAddresses, LcAccess(address) \/ LcWordAccess(address)
               PROVE  prior % 2 = 1 /\ prior' \in {prior, prior + 1}
      OBVIOUS
  <2>1. CASE LcAccess(address)
    <3>1. prior = address /\ EnablesWrites(address)
        BY <2>1, SelectEnables DEF LcAccess, Map, LastIsPrior
    <3> QED BY <2>1, <3>1 DEF LcAccess, Ended, EnablesWrites
  <2>2. CASE LcWordAccess(address)
    <3> DEFINE first == BankSelect(mmap_register, address, last_data_address)
    <3>1. CASE "WRLCRAM" \in first
      <4>1. prior = address /\ EnablesWrites(address)
          BY <3>1, SelectEnables DEF LastIsPrior
      <4> QED BY <2>2, <4>1 DEF LcWordAccess, Ended, EnablesWrites
    <3>2. CASE "WRLCRAM" \notin first
      <4>1. mmap_register' = BankSelect(first, address + 1, last_data_address)
          BY <2>2 DEF LcWordAccess
      <4>2. prior = address + 1 /\ EnablesWrites(address + 1)
          BY <3>2, <4>1, SelectEnables DEF LastIsPrior
      <4> QED BY <2>2, <4>2 DEF LcWordAccess, Ended, EnablesWrites
    <3> QED BY <3>1, <3>2
  <2> QED BY <2>1, <2>2
<1> QED BY <1>1, LastIsPriorAlways, PTL DEF Spec, WriteEnableNeedsTwo

-----------------------------------------------------------------------------
(* What an access finds.  CanonicalOf(bank, flags) is the map of one bank. *)
CanonicalOf(bank, flags) ==
    CASE bank = 0 -> Canonical00(flags) [] bank = 1 -> Canonical01(flags)
      [] bank = 224 -> CanonicalMega2(224, flags) [] bank = 225 -> CanonicalMega2(225, flags)

(* The map of each bank is the canonical one.                              *)
LEMMA MapOfBank ==
    ASSUME IInv, NEW bank \in Banks
    PROVE  MapOf(bank) = CanonicalOf(bank, mmap_register)
BY DEF IInv, MapOf, CanonicalOf, Canonical, Banks

(* The canonical map of bank 01, page by page.                             *)
LEMMA Canonical01At ==
    ASSUME NEW flags, NEW p \in Pages
    PROVE  /\ p \in {"00", "04", "20"} \union RamPages => Canonical01(flags)[p] = MainAux(1, p)
           /\ p \in IoPages => Canonical01(flags)[p] = IoPage(1, p, flags)
           /\ p \in LcPages => Canonical01(flags)[p] = LcPage(1, p, flags)
BY SlotsAssumption DEF Canonical01, RamPages, IoPages, LcPages, FixedPages

(* The canonical maps of E0 and E1, page by page.                          *)
LEMMA CanonicalMega2At ==
    ASSUME NEW bank, NEW flags, NEW p \in Pages
    PROVE  /\ p \in {"00", "04", "20"} \union RamPages =>
                CanonicalMega2(bank, flags)[p] = Direct(bank, p)
           /\ p = "C0" => CanonicalMega2(bank, flags)[p] = [Direct(bank, p) EXCEPT !.kind = "io"]
           /\ p \in CardPages => CanonicalMega2(bank, flags)[p] = RomPage(bank, p, flags)
BY SlotsAssumption DEF CanonicalMega2, RamPages, CardPages, LcPages, FixedPages

(* Main or auxiliary memory of banks 00 and 01.                            *)
LEMMA MainAuxBank ==
    ASSUME NEW bank \in {0, 1}, NEW mapped \in {0, 1}
    PROVE  BankOf("mainaux", bank, mapped) = mapped
<1>1. bank % 2 = bank /\ mapped % 2 = mapped
    OBVIOUS
<1> QED BY <1>1 DEF BankOf

(* Page p of bank 00 is main memory, read in bank rd and written in wr.    *)
IsRouted(p, rd, wr, flags) ==
    /\ Canonical00(flags)[p].kind = "mainaux" /\ Canonical00(flags)[p].ok
    /\ Canonical00(flags)[p].rd = rd /\ Canonical00(flags)[p].wr = wr
    /\ Canonical00(flags)[p].read = p /\ Canonical00(flags)[p].write = p
    /\ ("RAMRD" \in flags <=> "RAMWRT" \in flags) => rd = wr

(* A page of main memory is the same in 00 and 01, wherever the switches   *)
(* route it.                                                               *)
LEMMA MainMemory ==
    ASSUME NEW flags, NEW p \in {"00", "04", "20"} \union RamPages
    PROVE  /\ p \in Pages
           /\ \E rd, wr \in {0, 1} : IsRouted(p, rd, wr, flags)
           /\ Canonical01(flags)[p] = MainAux(1, p)
<1>1. p \in Pages
    BY DEF Pages, FixedPages, RamPages
<1>2. ASSUME NEW a, NEW b, NEW c,
             Canonical00(flags)[p] = Selects(MainAux(0, p), a, b, flags),
             a = b \/ (a = "RAMRD" /\ b = "RAMWRT")
      PROVE  \E rd, wr \in {0, 1} : IsRouted(p, rd, wr, flags)
  <2>1. /\ Aux(a, flags) \in {0, 1} /\ Aux(b, flags) \in {0, 1}
        /\ ("RAMRD" \in flags <=> "RAMWRT" \in flags) => Aux(a, flags) = Aux(b, flags)
      BY <1>2 DEF Aux
  <2>2. IsRouted(p, Aux(a, flags), Aux(b, flags), flags)
      BY <1>2, <2>1 DEF Selects, IsRouted, MainAux, Mapping
  <2> QED BY <2>1, <2>2
<1>3. Canonical01(flags)[p] = MainAux(1, p)
    BY <1>1, Canonical01At
<1>4. CASE p = "00"
  <2>1. Canonical00(flags)[p] = Selects(MainAux(0, p), "ALTZPLC", "ALTZPLC", flags)
      BY <1>1, <1>4, Canonical00At
  <2> QED BY <1>1, <1>2, <1>3, <2>1
<1>5. CASE p \in {"04", "20"}
  <2>1. Canonical00(flags)[p] = VideoPage(p, MainAux(0, p), flags)
      BY <1>1, <1>5, Canonical00At
  <2>2. CASE VideoPage(p, MainAux(0, p), flags) = Selects(MainAux(0, p), "TXTPAGE2", "TXTPAGE2", flags)
      BY <1>1, <1>2, <1>3, <2>1, <2>2
  <2>3. CASE VideoPage(p, MainAux(0, p), flags) = Selects(MainAux(0, p), "RAMRD", "RAMWRT", flags)
      BY <1>1, <1>2, <1>3, <2>1, <2>3
  <2> QED BY <2>2, <2>3 DEF VideoPage
<1>6. CASE p \in RamPages
  <2>1. Canonical00(flags)[p] = Selects(MainAux(0, p), "RAMRD", "RAMWRT", flags)
      BY <1>1, <1>6, Canonical00At
  <2> QED BY <1>1, <1>2, <1>3, <2>1
<1> QED BY <1>4, <1>5, <1>6

(* What a write of main memory reaches, and what a read does.              *)
LEMMA MainMemoryCells ==
    ASSUME IInv, NEW page \in {"00", "04", "20"} \union RamPages
    PROVE  /\ \E rd, wr \in {0, 1} :
                 /\ IsRouted(page, rd, wr, mmap_register)
                 /\ ReadCell(0, page) = <<rd, page>>
                 /\ WriteCell(0, page) = <<wr, page>>
           /\ ReadCell(1, page) = <<1, page>>
           /\ WriteCell(1, page) = <<1, page>>
<1>1. MapOf(0) = Canonical00(mmap_register) /\ MapOf(1) = Canonical01(mmap_register)
    BY MapOfBank DEF CanonicalOf, Banks
<1>2. MapOf(1)[page] = MainAux(1, page)
    BY <1>1, MainMemory
<1>3. PICK rd \in {0, 1}, wr \in {0, 1} : IsRouted(page, rd, wr, mmap_register)
    BY MainMemory
<1>4. /\ MapOf(0)[page].kind = "mainaux" /\ MapOf(0)[page].rd = rd /\ MapOf(0)[page].wr = wr
      /\ MapOf(0)[page].read = page /\ MapOf(0)[page].write = page /\ MapOf(0)[page].ok
    BY <1>1, <1>3 DEF IsRouted
<1>5. /\ MapOf(1)[page].kind = "mainaux" /\ MapOf(1)[page].rd = 1 /\ MapOf(1)[page].wr = 1
      /\ MapOf(1)[page].read = page /\ MapOf(1)[page].write = page /\ MapOf(1)[page].ok
    BY <1>2 DEF MainAux, Mapping
<1>6. ReadCell(0, page) = <<rd, page>> /\ ReadCell(1, page) = <<1, page>>
    BY <1>4, <1>5, MainAuxBank DEF ReadCell
<1>7. WrittenPage(0, page) = MapOf(wr)[page] /\ WrittenPage(1, page) = MapOf(1)[page]
    BY <1>4, <1>5, MainAuxBank DEF WrittenPage
<1>8. WrittenPage(0, page).ok /\ WrittenPage(0, page).write = page
    BY <1>4, <1>5, <1>7
<1>9. WriteCell(0, page) = <<wr, page>> /\ WriteCell(1, page) = <<1, page>>
    BY <1>4, <1>5, <1>7, <1>8, MainAuxBank DEF WriteCell
<1> QED BY <1>3, <1>6, <1>9

(* What an access of a page that is its own destination reaches.           *)
LEMMA PlainCells ==
    ASSUME NEW bank \in Banks, NEW page,
           MapOf(bank)[page].rd = bank, MapOf(bank)[page].wr = bank,
           MapOf(bank)[page].ok,
           \/ MapOf(bank)[page].kind = "direct"
           \/ MapOf(bank)[page].kind = "mainaux" /\ bank \in {0, 1}
    PROVE  /\ ReadCell(bank, page) = <<bank, MapOf(bank)[page].read>>
           /\ WriteCell(bank, page) = <<bank, MapOf(bank)[page].write>>
<1>1. BankOf(MapOf(bank)[page].kind, bank, bank) = bank
    BY MainAuxBank DEF BankOf
<1>2. WrittenPage(bank, page) = MapOf(bank)[page]
    BY <1>1 DEF WrittenPage
<1> QED BY <1>1, <1>2 DEF ReadCell, WriteCell

Mega2Banks == {224, 225}

(* The memory of the Mega II is where it is, main memory and language card.*)
LEMMA Mega2Cells ==
    ASSUME IInv, NEW bank \in Mega2Banks
    PROVE  /\ \A page \in {"00", "04", "20"} \union RamPages :
                 ReadCell(bank, page) = <<bank, page>> /\ WriteCell(bank, page) = <<bank, page>>
           /\ \A page \in LcPages :
                 LET image == LcImage(page, "LCBANK2" \in mmap_register)
                 IN ReadCell(bank, page) = <<bank, image>> /\ WriteCell(bank, page) = <<bank, image>>
<1>1. MapOf(bank) = CanonicalMega2(bank, mmap_register) /\ bank \in Banks
    BY MapOfBank DEF CanonicalOf, Banks, Mega2Banks
<1>2. ASSUME NEW page \in {"00", "04", "20"} \union RamPages
      PROVE  ReadCell(bank, page) = <<bank, page>> /\ WriteCell(bank, page) = <<bank, page>>
  <2>1. page \in Pages
      BY DEF Pages, FixedPages, RamPages
  <2>2. CanonicalMega2(bank, mmap_register)[page] = Direct(bank, page)
      BY <2>1, CanonicalMega2At
  <2>3. /\ MapOf(bank)[page].kind = "direct" /\ MapOf(bank)[page].ok
        /\ MapOf(bank)[page].rd = bank /\ MapOf(bank)[page].wr = bank
        /\ MapOf(bank)[page].read = page /\ MapOf(bank)[page].write = page
      BY <1>1, <2>2 DEF Direct, Mapping
  <2> QED BY <1>1, <2>3, PlainCells
<1>3. ASSUME NEW page \in LcPages
      PROVE  LET image == LcImage(page, "LCBANK2" \in mmap_register)
             IN ReadCell(bank, page) = <<bank, image>> /\ WriteCell(bank, page) = <<bank, image>>
  <2>1. page \in Pages
      BY DEF Pages, FixedPages, LcPages
  <2> DEFINE image == LcImage(page, "LCBANK2" \in mmap_register)
  <2>2. CanonicalMega2(bank, mmap_register)[page] = LcMega2Page(page, Direct(bank, page), mmap_register)
      BY <2>1, SlotsAssumption DEF CanonicalMega2, LcPages, FixedPages
  <2>3. /\ MapOf(bank)[page].kind = "direct" /\ MapOf(bank)[page].ok
        /\ MapOf(bank)[page].rd = bank /\ MapOf(bank)[page].wr = bank
        /\ MapOf(bank)[page].read = image /\ MapOf(bank)[page].write = image
      BY <1>1, <2>2 DEF LcMega2Page, Direct, Mapping
  <2> QED BY <1>1, <2>3, PlainCells
<1> QED BY <1>2, <1>3

(* Pages of I/O and of the slots: memory if the I/O of 00 and 01 is        *)
(* inhibited, and otherwise a device, the internal ROM or a card.          *)
LEMMA IoCells ==
    ASSUME IInv, NEW bank \in Banks, NEW page \in IoPages
    PROVE  /\ bank \in {0, 1} /\ "NIOLC" \in mmap_register =>
                 ReadCell(bank, page) = <<bank, page>> /\ WriteCell(bank, page) = <<bank, page>>
           /\ bank \in {224, 225} \/ "NIOLC" \notin mmap_register =>
                 /\ WriteCell(bank, page) = NoCell
                 /\ ReadCell(bank, page) =
                       IF page # "C0" /\ IsInternal(page, mmap_register) THEN <<ROM, page>> ELSE NoCell
<1>1. page \in Pages
    BY DEF Pages, FixedPages, IoPages
<1>2. page = "C0" \/ page \in CardPages
    BY DEF IoPages, CardPages
<1>3. CASE bank \in {0, 1} /\ "NIOLC" \in mmap_register
  <2>1. MapOf(bank)[page] = IoPage(bank, page, mmap_register)
      BY <1>1, <1>3, MapOfBank, Canonical00At, Canonical01At DEF CanonicalOf, IoPages
  <2>2. /\ MapOf(bank)[page].kind = "mainaux" /\ MapOf(bank)[page].ok
        /\ MapOf(bank)[page].rd = bank /\ MapOf(bank)[page].wr = bank
        /\ MapOf(bank)[page].read = page /\ MapOf(bank)[page].write = page
      BY <1>3, <2>1 DEF IoPage, MainAux, Mapping
  <2> QED BY <1>3, <2>2, PlainCells
<1>4. CASE bank \in {224, 225} \/ "NIOLC" \notin mmap_register
  <2>1. \/ page = "C0" /\ MapOf(bank)[page].kind = "io"
        \/ page # "C0" /\ MapOf(bank)[page] = RomPage(bank, page, mmap_register)
    <3>1. CASE bank \in {0, 1}
      <4>1. MapOf(bank)[page] = IoPage(bank, page, mmap_register)
          BY <1>1, <3>1, MapOfBank, Canonical00At, Canonical01At DEF CanonicalOf, IoPages
      <4> QED BY <1>4, <3>1, <4>1 DEF IoPage, MainAux, Mapping
    <3>2. CASE bank \in {224, 225}
      <4>1. MapOf(bank) = CanonicalMega2(bank, mmap_register)
          BY <3>2, MapOfBank DEF CanonicalOf
      <4>2. /\ page = "C0" => CanonicalMega2(bank, mmap_register)[page] = [Direct(bank, page) EXCEPT !.kind = "io"]
            /\ page \in CardPages =>
                 CanonicalMega2(bank, mmap_register)[page] = RomPage(bank, page, mmap_register)
          BY <1>1, CanonicalMega2At
      <4>3. page = "C0" => MapOf(bank)[page].kind = "io"
          BY <4>1, <4>2 DEF Direct, Mapping
      <4> QED BY <1>2, <4>1, <4>2, <4>3
    <3> QED BY <3>1, <3>2 DEF Banks
  <2>2. CASE page = "C0"
      BY <1>4, <2>1, <2>2 DEF ReadCell, WriteCell
  <2>3. CASE page # "C0" /\ ~IsInternal(page, mmap_register)
      BY <1>4, <2>1, <2>3 DEF ReadCell, WriteCell, RomPage, CardMemory, Mapping
  <2>4. CASE page # "C0" /\ IsInternal(page, mmap_register)
    <3>1. /\ MapOf(bank)[page].kind = "bank" /\ MapOf(bank)[page].rd = ROM
          /\ MapOf(bank)[page].wr = bank /\ MapOf(bank)[page].read = page
          /\ MapOf(bank)[page].ok = FALSE
        BY <2>1, <2>4 DEF RomPage, InternalRom, Mapping
    <3>2. ~WrittenPage(bank, page).ok
        BY <3>1 DEF WrittenPage, BankOf
    <3> QED BY <1>4, <2>4, <3>1, <3>2 DEF ReadCell, WriteCell, BankOf
  <2> QED BY <2>2, <2>3, <2>4
<1> QED BY <1>3, <1>4 DEF Banks

(* Pages of the language card of 00 and 01.                                *)
LcTarget(bank, flags) == IF bank = 0 THEN Aux("ALTZPLC", flags) ELSE 1

LEMMA LcCells ==
    ASSUME IInv, NEW bank \in {0, 1}, NEW page \in LcPages
    PROVE  LET target == LcTarget(bank, mmap_register)
               image == LcImage(page, mmap_register \intersect {"NIOLC", "LCBANK2"} # {})
           IN /\ target \in {0, 1}
              /\ ReadCell(bank, page) =
                    IF mmap_register \intersect {"NIOLC", "RDLCRAM"} = {}
                    THEN <<ROM, image>> ELSE <<target, image>>
              /\ WriteCell(bank, page) =
                    IF mmap_register \intersect {"NIOLC", "WRLCRAM"} # {}
                    THEN <<target, image>> ELSE NoCell
<1> DEFINE target == LcTarget(bank, mmap_register)
           image == LcImage(page, mmap_register \intersect {"NIOLC", "LCBANK2"} # {})
           fromRom == mmap_register \intersect {"NIOLC", "RDLCRAM"} = {}
<1>1. page \in Pages
    BY DEF Pages, FixedPages, LcPages
<1>2. target \in {0, 1}
    BY DEF LcTarget, Aux
<1>3. \A b \in {0, 1} : MapOf(b)[page] = LcPage(LcTarget(b, mmap_register), page, mmap_register)
    BY <1>1, MapOfBank, Canonical00At, Canonical01At DEF CanonicalOf, Banks, LcTarget
<1>4. \A b \in {0, 1} :
        /\ MapOf(b)[page].kind = IF fromRom THEN "bank" ELSE "mainaux"
        /\ MapOf(b)[page].wr = LcTarget(b, mmap_register)
        /\ MapOf(b)[page].rd = IF fromRom THEN ROM ELSE LcTarget(b, mmap_register)
        /\ MapOf(b)[page].read = image /\ MapOf(b)[page].write = image
        /\ MapOf(b)[page].ok = (mmap_register \intersect {"NIOLC", "WRLCRAM"} # {})
    BY <1>3 DEF LcPage
<1>5. BankOf(MapOf(bank)[page].kind, bank, target) = target
    BY <1>2, <1>4, MainAuxBank DEF BankOf
<1>6. WrittenPage(bank, page) = MapOf(target)[page]
    BY <1>4, <1>5 DEF WrittenPage
<1>7. WriteCell(bank, page) =
        IF mmap_register \intersect {"NIOLC", "WRLCRAM"} # {} THEN <<target, image>> ELSE NoCell
    BY <1>2, <1>4, <1>5, <1>6 DEF WriteCell
<1>8. ReadCell(bank, page) = IF fromRom THEN <<ROM, image>> ELSE <<target, image>>
    BY <1>2, <1>4, <1>5 DEF ReadCell, BankOf
<1> QED BY <1>2, <1>7, <1>8

(* Whatever the switches, a byte written through any bank and page is read *)
(* back from where it went, as long as RAMRD and RAMWRT agree.             *)
LEMMA ReadsFollowWrites == IInv => ReadsWhatItWrote
<1> SUFFICES ASSUME IInv, NEW bank \in Banks, NEW page \in Pages,
                    WriteCell(bank, page) # NoCell,
                    "RAMRD" \in mmap_register <=> "RAMWRT" \in mmap_register,
                    ReadCell(bank, page) # NoCell, ReadCell(bank, page)[1] # ROM
             PROVE  ReadCell(bank, page) = WriteCell(bank, page)
    BY DEF ReadsWhatItWrote
<1>1. CASE page \in {"00", "04", "20"} \union RamPages
  <2>1. CASE bank = 0
      BY <1>1, <2>1, MainMemoryCells DEF IsRouted
  <2>2. CASE bank = 1
      BY <1>1, <2>2, MainMemoryCells
  <2>3. CASE bank \in Mega2Banks
      BY <1>1, <2>3, Mega2Cells
  <2> QED BY <2>1, <2>2, <2>3 DEF Banks, Mega2Banks
<1>2. CASE page \in IoPages
  <2>1. bank \in {0, 1} /\ "NIOLC" \in mmap_register
      BY <1>2, IoCells DEF Banks
  <2> QED BY <1>2, <2>1, IoCells
<1>3. CASE page \in LcPages
  <2>1. CASE bank \in {0, 1}
    <3> DEFINE target == LcTarget(bank, mmap_register)
               image == LcImage(page, mmap_register \intersect {"NIOLC", "LCBANK2"} # {})
    <3>1. ReadCell(bank, page) = <<target, image>> \/ ReadCell(bank, page) = <<ROM, image>>
        BY <1>3, <2>1, LcCells
    <3>2. WriteCell(bank, page) = <<target, image>>
        BY <1>3, <2>1, LcCells
    <3> QED BY <3>1, <3>2
  <2>2. CASE bank \in Mega2Banks
      BY <1>3, <2>2, Mega2Cells
  <2> QED BY <2>1, <2>2 DEF Banks, Mega2Banks
<1> QED BY <1>1, <1>2, <1>3, PageKinds DEF IoPages

(* What the program reads of a switch is the switch.                       *)
LEMMA StatusIsSwitch ==
    ASSUME NEW flag, flag # "INTCXROM"
    PROVE  Status(flag) <=> flag \in mmap_register
BY DEF Status

(* Main memory and the zero page are where the status registers say.       *)
LEMMA MainFollowsStatus ==
    ASSUME IInv
    PROVE  /\ (ReadCell(0, "00")[1] = 1) <=> Status("ALTZPLC")
           /\ (ReadCell(0, "02")[1] = 1) <=> Status("RAMRD")
           /\ (WriteCell(0, "02")[1] = 1) <=> Status("RAMWRT")
           /\ WriteCell(0, "04") =
                 <<IF Status("80COLSTORE") THEN Aux("TXTPAGE2", mmap_register)
                   ELSE Aux("RAMWRT", mmap_register), "04">>
<1>1. "00" \in Pages /\ "02" \in Pages /\ "04" \in Pages /\ "02" \in RamPages
    BY DEF Pages, FixedPages, RamPages
<1>2. PICK rd \in {0, 1}, wr \in {0, 1} :
        IsRouted("00", rd, wr, mmap_register) /\ ReadCell(0, "00") = <<rd, "00">>
    BY MainMemoryCells
<1>3. PICK rd2 \in {0, 1}, wr2 \in {0, 1} :
        /\ IsRouted("02", rd2, wr2, mmap_register)
        /\ ReadCell(0, "02") = <<rd2, "02">> /\ WriteCell(0, "02") = <<wr2, "02">>
    BY <1>1, MainMemoryCells
<1>4. PICK rd4 \in {0, 1}, wr4 \in {0, 1} :
        IsRouted("04", rd4, wr4, mmap_register) /\ WriteCell(0, "04") = <<wr4, "04">>
    BY MainMemoryCells
<1>5. rd = Aux("ALTZPLC", mmap_register)
  <2>1. Canonical00(mmap_register)["00"] = Selects(MainAux(0, "00"), "ALTZPLC", "ALTZPLC", mmap_register)
      BY <1>1, Canonical00At
  <2> QED BY <1>2, <2>1 DEF IsRouted, Selects, MainAux, Mapping
<1>6. rd2 = Aux("RAMRD", mmap_register) /\ wr2 = Aux("RAMWRT", mmap_register)
  <2>1. Canonical00(mmap_register)["02"] = Selects(MainAux(0, "02"), "RAMRD", "RAMWRT", mmap_register)
      BY <1>1, Canonical00At
  <2> QED BY <1>3, <2>1 DEF IsRouted, Selects, MainAux, Mapping
<1>7. wr4 = IF "80COLSTORE" \in mmap_register THEN Aux("TXTPAGE2", mmap_register)
            ELSE Aux("RAMWRT", mmap_register)
  <2>1. Canonical00(mmap_register)["04"] = VideoPage("04", MainAux(0, "04"), mmap_register)
      BY <1>1, Canonical00At
  <2> QED BY <1>4, <2>1 DEF IsRouted, VideoPage, Selects, MainAux, Mapping
<1> QED BY <1>2, <1>3, <1>4, <1>5, <1>6, <1>7, StatusIsSwitch DEF Aux

(* The language card and the slots are what the status registers say.      *)
LEMMA CardsFollowStatus ==
    ASSUME IInv, "NIOLC" \notin mmap_register
    PROVE  /\ \A bank \in {0, 1}, page \in LcPages :
                 /\ (ReadCell(bank, page)[1] # ROM) <=> Status("RDLCRAM")
                 /\ (WriteCell(bank, page) # NoCell) <=> "WRLCRAM" \in mmap_register
           /\ \A bank \in Banks :
                 /\ Status("INTCXROM") =>
                       \A page \in SlotPages : ReadCell(bank, page) = <<ROM, page>>
                 /\ (ReadCell(bank, "C3") = NoCell) <=> Status("C3")
<1>1. ASSUME NEW bank \in {0, 1}, NEW page \in LcPages
      PROVE  /\ (ReadCell(bank, page)[1] # ROM) <=> Status("RDLCRAM")
             /\ (WriteCell(bank, page) # NoCell) <=> "WRLCRAM" \in mmap_register
  <2> DEFINE target == LcTarget(bank, mmap_register)
             image == LcImage(page, mmap_register \intersect {"NIOLC", "LCBANK2"} # {})
  <2>1. /\ target \in {0, 1}
        /\ ReadCell(bank, page) = IF "RDLCRAM" \in mmap_register THEN <<target, image>> ELSE <<ROM, image>>
        /\ WriteCell(bank, page) = IF "WRLCRAM" \in mmap_register THEN <<target, image>> ELSE NoCell
      BY LcCells
  <2> HIDE DEF target, image
  <2>2. (ReadCell(bank, page)[1] # ROM) <=> "RDLCRAM" \in mmap_register
      BY <2>1 DEF ROM
  <2>3. (WriteCell(bank, page) # NoCell) <=> "WRLCRAM" \in mmap_register
      BY <2>1 DEF NoCell
  <2> QED BY <2>2, <2>3, StatusIsSwitch
<1>2. ASSUME NEW bank \in Banks, Status("INTCXROM"), NEW page \in SlotPages
      PROVE  ReadCell(bank, page) = <<ROM, page>>
  <2>1. page # "C0" /\ page \in IoPages
      BY SlotsAssumption DEF FixedPages, IoPages
  <2>2. IsInternal(page, mmap_register)
      BY <1>2 DEF IsInternal, Status
  <2> QED BY <2>1, <2>2, IoCells DEF Banks
<1>3. ASSUME NEW bank \in Banks
      PROVE  (ReadCell(bank, "C3") = NoCell) <=> Status("C3")
  <2>1. "C3" \in IoPages /\ "C3" \notin SlotPages
      BY SlotsAssumption DEF FixedPages, IoPages
  <2>2. IsInternal("C3", mmap_register) <=> "C3" \notin mmap_register
      BY <2>1 DEF IsInternal
  <2>3. ReadCell(bank, "C3") = IF IsInternal("C3", mmap_register) THEN <<ROM, "C3">> ELSE NoCell
      BY <2>1, IoCells DEF Banks
  <2>4. <<ROM, "C3">> # NoCell
      BY DEF NoCell
  <2> QED BY <2>2, <2>3, <2>4, StatusIsSwitch
<1> QED BY <1>1, <1>2, <1>3

(* What is written to the display reaches the Mega II.                     *)
LEMMA VideoFollows == IInv => VideoFollowsSwitches
<1> SUFFICES ASSUME IInv PROVE VideoFollowsSwitches
    OBVIOUS
<1>1. /\ maps.sh0["04"] <=> "TXT1" \notin mmap_register
      /\ maps.sh1["04"] <=> "TXT1" \notin mmap_register
  <2>1. "04" \in ShadowPages
      BY DEF ShadowPages
  <2> QED BY <2>1 DEF IInv, Canonical, CanonicalShadow0, CanonicalShadow1, Shadowed0, Shadowed1
<1>2. ASSUME "SHGR" \notin mmap_register, NEW page \in {"20", "40", "60"}
      PROVE  ShadowCell(1, page) = <<225, page>>
  <2>1. page \in ShadowPages /\ page \in {"00", "04", "20"} \union RamPages
      BY DEF ShadowPages, RamPages
  <2>2. maps.sh1[page]
      BY <1>2, <2>1 DEF IInv, Canonical, CanonicalShadow1, Shadowed1
  <2>3. WriteCell(1, page) = <<1, page>>
      BY <2>1, MainMemoryCells
  <2> QED BY <2>1, <2>2, <2>3 DEF ShadowCell, NoCell
<1> DEFINE selected == IF Status("80COLSTORE") THEN Aux("TXTPAGE2", mmap_register)
                       ELSE Aux("RAMWRT", mmap_register)
<1>3. selected \in {0, 1}
    BY DEF Aux
<1>4. WriteCell(0, "04") = <<selected, "04">>
    BY MainFollowsStatus
<1> HIDE DEF selected
<1>5. ShadowCell(0, "04") = IF "TXT1" \in mmap_register THEN NoCell ELSE <<224 + selected, "04">>
  <2>1. "04" \in ShadowPages
      BY DEF ShadowPages
  <2>2. <<selected, "04">> # NoCell
      BY DEF NoCell
  <2>3. CASE selected = 0
      BY <1>1, <1>4, <2>1, <2>2, <2>3 DEF ShadowCell
  <2>4. CASE selected = 1
      BY <1>1, <1>4, <2>1, <2>2, <2>4 DEF ShadowCell
  <2> QED BY <1>3, <2>3, <2>4
<1> QED BY <1>2, <1>5 DEF VideoFollowsSwitches, selected

(* The status registers and the accesses agree, and so do the video        *)
(* switches and what is shown.                                             *)
LEMMA AccessesFollow == IInv => AccessesFollowSwitches
<1> SUFFICES ASSUME IInv PROVE AccessesFollowSwitches
    OBVIOUS
<1>1. (ReadCell(224, "D0")[2] = "D0") <=> Status("LCBANK2")
  <2>1. 224 \in Mega2Banks /\ "D0" \in LcPages
      BY DEF Mega2Banks, LcPages
  <2>2. ReadCell(224, "D0") = <<224, LcImage("D0", "LCBANK2" \in mmap_register)>>
      BY <2>1, Mega2Cells
  <2> QED BY <2>2, StatusIsSwitch DEF LcImage
<1>2. RoutingFollowsStatus
    BY <1>1, MainFollowsStatus, CardsFollowStatus DEF RoutingFollowsStatus
<1> QED BY <1>2, VideoFollows DEF AccessesFollowSwitches

(* For every set of slots and every sequence of switches, resets and       *)
(* snapshots, reads and writes of main memory that are routed alike reach  *)
(* the same cell, although the write path looks at a second map.           *)
THEOREM ReadsBack == Spec => []ReadsWhatItWrote
BY MapsAreCanonical, ReadsFollowWrites, PTL

(* For every set of slots and every sequence of switches, the memory that  *)
(* an access reaches is the one that the status registers report.          *)
THEOREM StatusIsTrue == Spec => []AccessesFollowSwitches
BY MapsAreCanonical, AccessesFollow, PTL
=============================================================================
