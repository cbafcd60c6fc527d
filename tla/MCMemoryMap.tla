---------------------------- MODULE MCMemoryMap ----------------------------
(* All switches at once are some 400 000 combinations.  The maps of the    *)
(* bank and video switches, of the language card, of the slots and of the  *)
(* shadowing depend on one another only through the switches these scopes  *)
(* share, so a behaviour changes the switches of one scope.                *)
EXTENDS MemoryMap

Scopes == {
    {"ALTZPLC", "RAMRD", "RAMWRT", "80COLSTORE", "TXTPAGE2", "NIOLC", "TXT1"},
    {"ALTZPLC", "RAMRD", "NIOLC", "CXROM"} \union LC,
    {"NIOLC", "RDLCRAM"} \union CROM,
    {"NIOLC", "RAMWRT", "RAMRD"} \union NSHADOW}

Initially == {"SHGR", "WRLCRAM", "LCBANK2"}

Bound ==
    /\ \E scope \in Scopes : Differ(mmap_register, Initially) \subseteq scope
    /\ last_data_address # OtherAddress => Differ(mmap_register, Initially) \subseteq LC \union {"NIOLC"}

MCSavedRegisters == {
    Initially, {},
    {"ALTZPLC", "RAMRD", "NIOLC", "RDLCRAM"},
    {"C3", "NIOLC", "SHGR", "WRLCRAM", "LCBANK2"}}
=============================================================================
