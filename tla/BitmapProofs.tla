---------------------------- MODULE BitmapProofs ----------------------------
(***************************************************************************)
(* For any number of pages, of flushes without the lock and of writes, no  *)
(* page that differs from the file is forgotten and a close saves all of   *)
(* them, as long as the accesses to the dirty page map are Orderly.  The   *)
(* argument needs that a map which a flush is going to swap in is nobody   *)
(* else's and has no marks (FreshInv), that a byte read by the setter has  *)
(* all the marks it is going to be stored over (SetterInv), and that once  *)
(* the closing flush has swapped, nothing is marked any more (CloserInv).  *)
(***************************************************************************)
EXTENDS Bitmap, TLAPS

TypeInv ==
  /\ open \in BOOLEAN
  /\ mem \in [Pages -> Nat] /\ file \in [Pages -> Nat] /\ sets \in Nat
  /\ dirty_pages \in Nat /\ allocated \in 1..MaxMaps
  /\ maps \in [1..MaxMaps -> SUBSET Pages]
  /\ spc \in {"idle", "load", "store"} /\ page \in Pages
  /\ map \in Nat /\ byte \in SUBSET Pages
  /\ fpc \in [Callers -> {"idle", "swap", "scan", "leave", "close"}]
  /\ old \in [Callers -> Nat] /\ new \in [Callers -> Nat]
  /\ i \in [Callers -> Nat] /\ res \in [Callers -> BOOLEAN]

PointerInv ==
  /\ open => dirty_pages \in 1..allocated
  /\ ~open => spc = "idle" /\ \A f \in Callers : fpc[f] = "idle"
  /\ spc # "idle" => fpc[Locker] = "idle"
  /\ spc = "store" => map \in 1..allocated
  /\ \A f \in Callers : fpc[f] \in {"swap", "scan"} => old[f] \in 1..allocated

FreshInv ==
  /\ \A m \in 1..MaxMaps : m > allocated => maps[m] = {}
  /\ \A f \in Callers : fpc[f] = "swap" =>
       /\ new[f] \in 1..allocated /\ maps[new[f]] = {}
       /\ new[f] # dirty_pages /\ (spc = "store" => new[f] # map)
       /\ \A g \in Callers \ {f} : fpc[g] = "swap" => new[g] # new[f]

SetterInv == spc = "store" => maps[dirty_pages] \cap SameByte(page) \subseteq byte

CloserInv ==
  /\ fpc[Locker] \in {"scan", "leave", "close"} => maps[dirty_pages] = {}
  /\ fpc[Locker] = "scan" /\ i[Locker] > 0 => file[0] = mem[0]
  /\ fpc[Locker] = "close" /\ res[Locker] => file[0] = mem[0]

Inv == /\ TypeInv /\ PointerInv /\ FreshInv /\ SetterInv /\ CloserInv
       /\ UnsavedIsMarked /\ CloseSavesAll

-----------------------------------------------------------------------------
LEMMA FirstPage == 0 \in Pages
  BY BitmapAssumption, SMTT(120) DEF Pages

LEMMA TypeKeeps ==
  ASSUME Inv, [Next]_vars
  PROVE  TypeInv'
  <1> USE BitmapAssumption DEF Inv, TypeInv
  <1>1. CASE \E p \in Pages : SetBit(p)
    BY <1>1, SMTT(120) DEF SetBit, heap, flusher
  <1>2. CASE LoadByte
    BY <1>2, SMTT(120) DEF LoadByte, PointerInv, heap, flusher
  <1>3. CASE StoreByte
    BY <1>3, FirstPage, SMTT(120) DEF StoreByte, PointerInv, flusher
  <1>4. ASSUME NEW f \in Callers, FlushBegin(f) PROVE TypeInv'
    BY <1>4, SMTT(120) DEF FlushBegin, setter
  <1>5. ASSUME NEW f \in Callers, FlushSwap(f) PROVE TypeInv'
    BY <1>5, SMTT(120) DEF FlushSwap, setter
  <1>6. ASSUME NEW f \in Callers, FlushPage(f) PROVE TypeInv'
    <2>1. i' \in [Callers -> Nat]
      BY <1>6, SMTT(120) DEF FlushPage
    <2>2. file' \in [Pages -> Nat]
      <3>1. i[f] \in Pages
        BY <1>6, SMTT(120) DEF FlushPage, ToScan, Pages
      <3> QED BY <1>6, <3>1, SMTT(120) DEF FlushPage
    <2> QED BY <1>6, <2>1, <2>2, SMTT(120) DEF FlushPage, heap, setter
  <1>7. ASSUME NEW f \in Callers, FlushPageFails(f) PROVE TypeInv'
    BY <1>7, SMTT(120) DEF FlushPageFails, heap, setter
  <1>8. ASSUME NEW f \in Callers, FlushLeave(f) PROVE TypeInv'
    BY <1>8, SMTT(120) DEF FlushLeave, setter
  <1>9. CASE Close
    <2>1. open' \in BOOLEAN
      BY <1>9, Zenon DEF Close
    <2>3. dirty_pages' \in Nat
      BY <1>9, SMTT(120) DEF Close
    <2>2. fpc' \in [Callers -> {"idle", "swap", "scan", "leave", "close"}]
      BY <1>9, Zenon DEF Close
    <2> QED BY <1>9, <2>1, <2>2, <2>3, SMTT(120) DEF Close, setter
  <1>10. CASE UNCHANGED vars
    BY <1>10, SMTT(120) DEF vars, heap, setter, flusher
  <1> QED
    BY <1>1, <1>2, <1>3, <1>4, <1>5, <1>6, <1>7, <1>8, <1>9, <1>10, Zenon
       DEF Next, Setting, Flushing, Stopped

LEMMA PointersKeep ==
  ASSUME Inv, [Next]_vars
  PROVE  PointerInv'
  <1> USE BitmapAssumption DEF Inv, TypeInv, PointerInv, Callers
  <1>1. CASE \E p \in Pages : SetBit(p)
    BY <1>1, SMTT(120) DEF SetBit, heap, flusher
  <1>2. CASE LoadByte
    BY <1>2, SMTT(120) DEF LoadByte, heap, flusher
  <1>3. CASE StoreByte
    BY <1>3, SMTT(120) DEF StoreByte, flusher
  <1>4. ASSUME NEW f \in Callers, FlushBegin(f) PROVE PointerInv'
    BY <1>4, SMTT(120) DEF FlushBegin, setter
  <1>5. ASSUME NEW f \in Callers, FlushSwap(f) PROVE PointerInv'
    BY <1>5, SMTT(120) DEF FlushSwap, setter, FreshInv
  <1>6. ASSUME NEW f \in Callers, FlushPage(f) PROVE PointerInv'
    BY <1>6, SMTT(120) DEF FlushPage, heap, setter
  <1>7. ASSUME NEW f \in Callers, FlushPageFails(f) PROVE PointerInv'
    BY <1>7, SMTT(120) DEF FlushPageFails, heap, setter
  <1>8. ASSUME NEW f \in Callers, FlushLeave(f) PROVE PointerInv'
    BY <1>8, SMTT(120) DEF FlushLeave, setter
  <1>9. CASE Close
    BY <1>9, SMTT(120) DEF Close, setter
  <1>10. CASE UNCHANGED vars
    BY <1>10, SMTT(120) DEF vars, heap, setter, flusher
  <1> QED
    BY <1>1, <1>2, <1>3, <1>4, <1>5, <1>6, <1>7, <1>8, <1>9, <1>10, SMTT(120)
       DEF Next, Setting, Flushing, Stopped

LEMMA FreshKeeps ==
  ASSUME Inv, [Next]_vars
  PROVE  FreshInv'
  <1> USE BitmapAssumption DEF Inv, TypeInv, PointerInv, FreshInv
  <1>1. CASE \E p \in Pages : SetBit(p)
    BY <1>1, SMTT(120) DEF SetBit, heap, flusher
  <1>2. CASE LoadByte
    BY <1>2, SMTT(120) DEF LoadByte, heap, flusher
  <1>3. CASE StoreByte
    BY <1>3, SMTT(120) DEF StoreByte, flusher
  <1>4. ASSUME NEW f \in Callers, FlushBegin(f) PROVE FreshInv'
    <2>1. /\ \A m \in 1..MaxMaps : m > allocated => maps[m] = {}
          /\ \A g \in Callers : fpc[g] = "swap" =>
               /\ new[g] \in 1..allocated /\ maps[new[g]] = {}
               /\ new[g] # dirty_pages /\ (spc = "store" => new[g] # map)
               /\ \A h \in Callers \ {g} : fpc[h] = "swap" => new[h] # new[g]
      BY Zenon
    <2>2. /\ allocated' = allocated + 1 /\ maps' = maps /\ map' = map
          /\ dirty_pages' = dirty_pages /\ spc' = spc
          /\ new'[f] = allocated + 1
          /\ \A g \in Callers \ {f} : new'[g] = new[g] /\ fpc'[g] = fpc[g]
      BY <1>4, Zenon DEF FlushBegin, setter
    <2>3. /\ allocated \in Nat /\ MaxMaps \in Nat /\ allocated + 1 \in 1..MaxMaps
          /\ allocated + 1 > allocated
      BY <1>4, SMTT(120) DEF FlushBegin
    <2>4. /\ \A m \in 1..MaxMaps : m > allocated + 1 => m > allocated
          /\ \A m \in 1..allocated : m \in 1..(allocated + 1) /\ m # allocated + 1
          /\ allocated + 1 \in 1..(allocated + 1)
      BY <2>3, SMTT(120)
    <2>5. /\ dirty_pages \in 1..allocated
          /\ spc = "store" => map \in 1..allocated
      BY <1>4, Zenon DEF FlushBegin
    <2>6. \A m \in 1..MaxMaps : m > allocated' => maps'[m] = {}
      BY <2>1, <2>2, <2>4, Zenon
    <2>7. ASSUME NEW g \in Callers, fpc'[g] = "swap"
          PROVE  /\ new'[g] \in 1..allocated' /\ maps'[new'[g]] = {}
                 /\ new'[g] # dirty_pages' /\ (spc' = "store" => new'[g] # map')
      <3>1. CASE g = f
        BY <2>1, <2>2, <2>3, <2>4, <2>5, <3>1, Zenon
      <3>2. CASE g # f
        BY <2>1, <2>2, <2>4, <2>7, <3>2, Zenon
      <3> QED BY <3>1, <3>2, Zenon
    <2>8. ASSUME NEW g \in Callers, fpc'[g] = "swap", NEW h \in Callers \ {g}, fpc'[h] = "swap"
          PROVE  new'[h] # new'[g]
      BY <2>1, <2>2, <2>4, <2>8, Zenon
    <2> QED BY <2>6, <2>7, <2>8, Zenon
  <1>5. ASSUME NEW f \in Callers, FlushSwap(f) PROVE FreshInv'
    BY <1>5, SMTT(120) DEF FlushSwap, setter
  <1>6. ASSUME NEW f \in Callers, FlushPage(f) PROVE FreshInv'
    BY <1>6, Zenon DEF FlushPage, heap, setter
  <1>7. ASSUME NEW f \in Callers, FlushPageFails(f) PROVE FreshInv'
    BY <1>7, SMTT(120) DEF FlushPageFails, heap, setter
  <1>8. ASSUME NEW f \in Callers, FlushLeave(f) PROVE FreshInv'
    BY <1>8, SMTT(120) DEF FlushLeave, setter
  <1>9. CASE Close
    BY <1>9, SMTT(120) DEF Close, setter
  <1>10. CASE UNCHANGED vars
    BY <1>10, SMTT(120) DEF vars, heap, setter, flusher
  <1> QED
    BY <1>1, <1>2, <1>3, <1>4, <1>5, <1>6, <1>7, <1>8, <1>9, <1>10, Zenon
       DEF Next, Setting, Flushing, Stopped

LEMMA SetterKeeps ==
  ASSUME Inv, [Next]_vars
  PROVE  SetterInv'
  <1> USE BitmapAssumption DEF Inv, TypeInv, PointerInv, FreshInv, SetterInv
  <1>1. CASE \E p \in Pages : SetBit(p)
    BY <1>1, SMTT(120) DEF SetBit, heap, flusher
  <1>2. CASE LoadByte
    BY <1>2, SMTT(120) DEF LoadByte, heap, flusher
  <1>3. CASE StoreByte
    BY <1>3, SMTT(120) DEF StoreByte, flusher
  <1>4. ASSUME NEW f \in Callers, FlushBegin(f) PROVE SetterInv'
    BY <1>4, SMTT(120) DEF FlushBegin, setter
  <1>5. ASSUME NEW f \in Callers, FlushSwap(f) PROVE SetterInv'
    BY <1>5, SMTT(120) DEF FlushSwap, setter
  <1>6. ASSUME NEW f \in Callers, FlushPage(f) PROVE SetterInv'
    BY <1>6, SMTT(120) DEF FlushPage, heap, setter
  <1>7. ASSUME NEW f \in Callers, FlushPageFails(f) PROVE SetterInv'
    BY <1>7, SMTT(120) DEF FlushPageFails, heap, setter
  <1>8. ASSUME NEW f \in Callers, FlushLeave(f) PROVE SetterInv'
    BY <1>8, SMTT(120) DEF FlushLeave, setter
  <1>9. CASE Close
    BY <1>9, SMTT(120) DEF Close, setter
  <1>10. CASE UNCHANGED vars
    BY <1>10, SMTT(120) DEF vars, heap, setter, flusher
  <1> QED
    BY <1>1, <1>2, <1>3, <1>4, <1>5, <1>6, <1>7, <1>8, <1>9, <1>10, SMTT(120)
       DEF Next, Setting, Flushing, Stopped

LEMMA CloserKeeps ==
  ASSUME Inv, [Next]_vars
  PROVE  CloserInv'
  <1> USE BitmapAssumption DEF Inv, TypeInv, PointerInv, FreshInv, CloserInv
  <1>1. CASE \E p \in Pages : SetBit(p)
    BY <1>1, SMTT(120) DEF SetBit, heap, flusher
  <1>2. CASE LoadByte
    BY <1>2, SMTT(120) DEF LoadByte, heap, flusher
  <1>3. CASE StoreByte
    BY <1>3, SMTT(120) DEF StoreByte, flusher
  <1>4. ASSUME NEW f \in Callers, FlushBegin(f) PROVE CloserInv'
    BY <1>4, SMTT(120) DEF FlushBegin, setter
  <1>5. ASSUME NEW f \in Callers, FlushSwap(f) PROVE CloserInv'
    BY <1>5, SMTT(120) DEF FlushSwap, setter
  <1>6. ASSUME NEW f \in Callers, FlushPage(f) PROVE CloserInv'
    <2>1. i[f] \in Nat /\ i[f] \in Pages
      BY <1>6, SMTT(120) DEF FlushPage, ToScan, Pages
    <2>2. file'[0] \in {file[0], mem[0]} /\ (i[f] = 0 => file'[0] = mem[0])
      BY <1>6, <2>1, FirstPage, SMTT(120) DEF FlushPage
    <2>3. /\ UNCHANGED <<fpc, maps, dirty_pages, mem, res>>
          /\ fpc[f] = "scan" /\ i' = [i EXCEPT ![f] = @ + 1]
      BY <1>6, SMTT(120) DEF FlushPage, heap
    <2> QED BY <2>1, <2>2, <2>3, SMTT(120)
  <1>7. ASSUME NEW f \in Callers, FlushPageFails(f) PROVE CloserInv'
    BY <1>7, SMTT(120) DEF FlushPageFails, heap, setter
  <1>8. ASSUME NEW f \in Callers, FlushLeave(f) PROVE CloserInv'
    <2>1. UNCHANGED <<maps, dirty_pages, mem, file>>
      BY <1>8, SMTT(120) DEF FlushLeave
    <2>2. CASE f # Locker
      <3>1. /\ fpc'[Locker] = fpc[Locker] /\ i'[Locker] = i[Locker]
            /\ res'[Locker] = res[Locker]
        BY <1>8, <2>2, SMTT(120) DEF FlushLeave, Callers
      <3> QED BY <2>1, <3>1, SMTT(120)
    <2>3. CASE f = Locker
      <3>1. fpc'[Locker] = "close" /\ fpc[Locker] \in {"scan", "leave"}
        BY <1>8, <2>3, SMTT(120) DEF FlushLeave
      <3>2. ASSUME res'[Locker] PROVE fpc[Locker] = "scan" /\ ~ToScan(Locker)
        BY <1>8, <2>3, <3>2, Zenon DEF FlushLeave
      <3>3. ASSUME res'[Locker] PROVE file[0] = mem[0]
        BY <2>3, <3>2, <3>3, SMTT(120) DEF ToScan
      <3> QED BY <2>1, <3>1, <3>3, SMTT(120)
    <2> QED BY <2>2, <2>3, SMTT(120)
  <1>9. CASE Close
    BY <1>9, SMTT(120) DEF Close, setter, Callers
  <1>10. CASE UNCHANGED vars
    BY <1>10, SMTT(120) DEF vars, heap, setter, flusher
  <1> QED
    BY <1>1, <1>2, <1>3, <1>4, <1>5, <1>6, <1>7, <1>8, <1>9, <1>10, SMTT(120)
       DEF Next, Setting, Flushing, Stopped

(* What is lost stays lost, and a closed bitmap is not opened again.       *)
LEMMA OrderlyBefore ==
  ASSUME [Next]_vars, Orderly'
  PROVE  Orderly /\ (open' => open)
  <1> USE DEF Orderly
  <1>1. ASSUME NEW p \in Pages, SetBit(p) PROVE Orderly /\ (open' => open)
    BY <1>1, SMTT(120) DEF SetBit
  <1>2. CASE LoadByte
    BY <1>2, SMTT(120) DEF LoadByte
  <1>3. CASE StoreByte
    BY <1>3, Zenon DEF StoreByte
  <1>4. ASSUME NEW f \in Callers, FlushBegin(f) PROVE Orderly /\ (open' => open)
    BY <1>4, SMTT(120) DEF FlushBegin
  <1>5. ASSUME NEW f \in Callers, FlushSwap(f) PROVE Orderly /\ (open' => open)
    BY <1>5, Zenon DEF FlushSwap
  <1>6. ASSUME NEW f \in Callers, FlushPage(f) PROVE Orderly /\ (open' => open)
    BY <1>6, SMTT(120) DEF FlushPage
  <1>7. ASSUME NEW f \in Callers, FlushPageFails(f)
        PROVE  Orderly /\ (open' => open)
    BY <1>7, SMTT(120) DEF FlushPageFails
  <1>8. ASSUME NEW f \in Callers, FlushLeave(f) PROVE Orderly /\ (open' => open)
    BY <1>8, Zenon DEF FlushLeave
  <1>9. CASE Close
    BY <1>9, SMTT(120) DEF Close
  <1>10. CASE UNCHANGED vars
    BY <1>10, SMTT(120) DEF vars
  <1> QED
    BY <1>1, <1>2, <1>3, <1>4, <1>5, <1>6, <1>7, <1>8, <1>9, <1>10, SMTT(120)
       DEF Next, Setting, Flushing, Stopped

(* Page p is going to be written.                                          *)
Covered(p) ==
  \/ p = 0 \/ p \in maps[dirty_pages]
  \/ spc # "idle" /\ page = p
  \/ \E f \in Callers : WillWrite(f, p)

LEMMA UnsavedKeeps ==
  ASSUME Inv, [Next]_vars
  PROVE  UnsavedIsMarked'
  <1> SUFFICES ASSUME open', Orderly', NEW p \in Pages, file'[p] # mem'[p]
               PROVE  Covered(p)'
    BY SMTT(120) DEF UnsavedIsMarked, Covered
  <1>0. /\ open /\ Orderly
        /\ file[p] # mem[p] => Covered(p)
    BY OrderlyBefore, SMTT(120) DEF Inv, UnsavedIsMarked, Covered
  <1> USE DEF Inv, TypeInv, PointerInv, WillWrite, Covered
  <1>1. CASE \E q \in Pages : SetBit(q)
    BY <1>0, <1>1, SMTT(120) DEF SetBit, heap, flusher
  <1>2. CASE LoadByte
    BY <1>0, <1>2, SMTT(120) DEF LoadByte, heap, flusher
  <1>3. CASE StoreByte
    <2>1. maps' = [maps EXCEPT ![dirty_pages] =
                     (@ \ SameByte(page)) \cup byte \cup {page}]
      BY <1>3, Zenon DEF StoreByte, Orderly
    <2>2. \A m \in 1..MaxMaps : maps[m] \subseteq maps'[m]
      BY <1>3, <2>1, SMTT(120) DEF SetterInv, StoreByte
    <2>3. page \in maps'[dirty_pages]
      <3>1. dirty_pages \in 1..MaxMaps
        BY <1>0, BitmapAssumption, SMTT(120)
      <3> QED BY <2>1, <3>1, SMTT(120)
    <2> QED BY <1>0, <1>3, <2>2, <2>3, SMTT(120) DEF StoreByte, flusher
  <1>4. ASSUME NEW f \in Callers, FlushBegin(f) PROVE Covered(p)'
    BY <1>0, <1>4, ZenonT(60) DEF FlushBegin, setter
  <1>5. ASSUME NEW f \in Callers, FlushSwap(f) PROVE Covered(p)'
    <2>1. old[f] = dirty_pages
      BY <1>5, Zenon DEF FlushSwap, Orderly
    <2>2. /\ fpc[f] = "swap" /\ fpc' = [fpc EXCEPT ![f] = "scan"]
          /\ i' = [i EXCEPT ![f] = 0]
          /\ UNCHANGED <<old, maps, file, mem, spc, page>>
      BY <1>5, ZenonT(60) DEF FlushSwap, setter
    <2>3. p \in maps[old[f]] => WillWrite(f, p)'
      BY <2>2, BitmapAssumption, SMTT(120) DEF Pages
    <2>4. ASSUME NEW g \in Callers \ {f}, WillWrite(g, p) PROVE WillWrite(g, p)'
      BY <2>2, <2>4, SMTT(120)
    <2>5. WillWrite(f, p) => p \in maps[old[f]]
      BY Zenon
    <2> QED BY <1>0, <2>1, <2>2, <2>3, <2>4, <2>5, Zenon
  <1>6. ASSUME NEW f \in Callers, FlushPage(f) PROVE Covered(p)'
    <2>1. i[f] \in Pages
      BY <1>6, BitmapAssumption, SMTT(120) DEF FlushPage, ToScan, Pages
    <2>2. file[p] # mem[p] /\ (p = i[f] => p \notin maps[old[f]])
      BY <1>6, <2>1, Zenon DEF FlushPage
    <2> QED BY <1>0, <1>6, <2>1, <2>2, SMTT(120) DEF FlushPage, heap, setter, Pages
  <1>7. ASSUME NEW f \in Callers, FlushPageFails(f) PROVE Covered(p)'
    BY <1>7, Zenon DEF FlushPageFails, Orderly
  <1>8. ASSUME NEW f \in Callers, FlushLeave(f) PROVE Covered(p)'
    <2>1. fpc[f] = "scan" /\ ~ToScan(f)
      BY <1>8, Zenon DEF FlushLeave, Orderly
    <2>2. ~WillWrite(f, p)
      BY <2>1, BitmapAssumption, SMTT(120) DEF ToScan, Pages
    <2> QED BY <1>0, <1>8, <2>2, Zenon DEF FlushLeave, setter
  <1>9. CASE Close
    BY <1>0, <1>9, Zenon DEF Close, setter
  <1>10. CASE UNCHANGED vars
    BY <1>0, <1>10, ZenonT(60) DEF vars, heap, setter, flusher
  <1> QED
    BY <1>1, <1>2, <1>3, <1>4, <1>5, <1>6, <1>7, <1>8, <1>9, <1>10, Zenon
       DEF Next, Setting, Flushing, Stopped

LEMMA ClosedKeeps ==
  ASSUME Inv, [Next]_vars
  PROVE  CloseSavesAll'
  <1> SUFFICES ASSUME ~open', Orderly' PROVE file' = mem'
    BY SMTT(120) DEF CloseSavesAll
  <1> USE DEF Inv, TypeInv, PointerInv
  <1>0. Orderly
    BY OrderlyBefore, SMTT(120)
  <1>1. CASE ~open
    <2>1. file = mem
      BY <1>0, <1>1, SMTT(120) DEF CloseSavesAll
    <2>2. UNCHANGED <<file, mem>>
      BY <1>1, ZenonT(60) DEF Next, Setting, SetBit, LoadByte, StoreByte, Flushing,
         FlushBegin, FlushSwap, FlushPage, FlushPageFails, FlushLeave, Close,
         Stopped, vars, Callers
    <2> QED BY <2>1, <2>2, SMTT(120)
  <1>2. CASE open
    <2>1. Close /\ res[Locker]
      BY <1>2, ZenonT(60) DEF Next, Setting, SetBit, LoadByte, StoreByte, Flushing,
         FlushBegin, FlushSwap, FlushPage, FlushPageFails, FlushLeave, Close,
         Stopped, vars
    <2>2. /\ fpc[Locker] = "close" /\ \A f \in Flushers : fpc[f] = "idle"
          /\ UNCHANGED <<file, mem>>
      BY <1>2, <2>1, Zenon DEF Close
    <2>3. spc = "idle" /\ maps[dirty_pages] = {} /\ file[0] = mem[0]
      BY <2>1, <2>2, SMTT(120) DEF CloserInv
    <2>4. \A f \in Callers : fpc[f] \notin {"swap", "scan"}
      BY <2>2, SMTT(120) DEF Callers
    <2>5. \A p \in Pages : file[p] = mem[p]
      BY <1>0, <1>2, <2>3, <2>4, Zenon DEF UnsavedIsMarked, WillWrite
    <2> QED BY <2>2, <2>5, SMTT(120)
  <1> QED BY <1>1, <1>2, SMTT(120)

-----------------------------------------------------------------------------
LEMMA InitInv == Init => Inv
  BY BitmapAssumption, FirstPage, SMTT(120)
     DEF Init, Inv, TypeInv, PointerInv, FreshInv, SetterInv, CloserInv,
         UnsavedIsMarked, CloseSavesAll

LEMMA InvKeeps == Inv /\ [Next]_vars => Inv'
  BY TypeKeeps, PointersKeep, FreshKeeps, SetterKeeps, CloserKeeps,
     UnsavedKeeps, ClosedKeeps, SMTT(120) DEF Inv

(* No page that differs from the file is forgotten between bitmap_setbit   *)
(* and flush_dirty_pages, for any number of pages and flushing threads.    *)
THEOREM NothingForgotten == Spec => []UnsavedIsMarked
  BY InitInv, InvKeeps, PTL DEF Spec, Inv

(* bitmap_close leaves in the file what was in memory, whatever was set    *)
(* and flushed before it and beside it.                                    *)
THEOREM CloseSaves == Spec => []CloseSavesAll
  BY InitInv, InvKeeps, PTL DEF Spec, Inv
=============================================================================
