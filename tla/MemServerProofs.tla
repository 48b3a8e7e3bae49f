---------------------------- MODULE MemServerProofs ---------------------------
(***************************************************************************)
(* Theorems about the in-memory store from start to stop: what holds while *)
(* it runs (MemStoreProofs) holds again after any dump, kill and load.     *)
(***************************************************************************)
EXTENDS MemServer, MemStoreProofs

USE TiddlersAssumption, MemAssumption, ServerAssumption

(* The file has of a title what Dump found, as far as it was in order: one *)
(* that is not mixed agrees with itself and has the text last sent.        *)
Saved(k) ==
  IF dump[k] = Absent THEN safe[k].text = Absent
  ELSE Consistent(dump[k]) /\ dump[k].text = Str(safe[k].text)

DumpOK ==
  /\ phase \in {"serve", "dump"}
  /\ dump \in [Keys -> MemTiddlers \cup {Absent}] \cup {NoDump}
  /\ safe \in [Keys -> [text : Texts \cup {Absent}, mixed : BOOLEAN]]
  /\ \A k \in Keys :
       IF dump = NoDump THEN safe[k].text = Absent ELSE ~safe[k].mixed => Saved(k)

(* Shutdown has waited for the requests when Dump begins.                  *)
Waited == phase = "dump" => \A w \in Putters : put[w].at = "idle"

ServerInv == RefInv /\ UpdateInv /\ DumpOK /\ Waited

(* A tiddler that is read back: its file name is what was left of it.      *)
LEMMA DecodedTiddler ==
  ASSUME NEW td \in MemTiddlers
  PROVE  LET new == [td EXCEPT !.file = Str(NameOf(@))]
         IN  /\ new \in MemTiddlers
             /\ new.rev = td.rev /\ new.meta = td.meta /\ new.text = td.text
             /\ new.hash = td.hash /\ new.file = Str(NameOf(td.file))
             /\ NameOf(td.file) \in Files \cup {NoFile} /\ NameOf(new.file) = NameOf(td.file)
<1>1. NameOf(td.file) \in Files \cup {NoFile}
  BY DEF MemTiddlers, Strings, NameOf
<1> DEFINE name == NameOf(td.file)
           new == [td EXCEPT !.file = Str(name)]
<1> HIDE DEF name
<1>2. Str(name) \in Strings(Files \cup {NoFile}) /\ NameOf(Str(name)) = name
  BY <1>1, StrType DEF NameOf, Str, name
<1>3. /\ new \in MemTiddlers
      /\ new.rev = td.rev /\ new.meta = td.meta /\ new.text = td.text
      /\ new.hash = td.hash /\ new.file = Str(name)
  BY <1>2 DEF MemTiddlers
<1> HIDE DEF new
<1>4. NameOf(new.file) = name
  BY <1>2, <1>3
<1> QED BY <1>1, <1>3, <1>4, Zenon DEF name, new

(* What a new process loads is in order as far as the file was.            *)
LEMMA LoadStep == DumpOK' /\ Load => ServerInv'
<1> SUFFICES ASSUME DumpOK', Load PROVE ServerInv'
  OBVIOUS
<1>1. PICK f \in [Keys -> MemTiddlers \cup {Absent}] \cup {NoDump} : f = dump'
  BY DEF DumpOK
<1>2. PICK s \in [Keys -> [text : Texts \cup {Absent}, mixed : BOOLEAN]] : s = safe'
  BY DEF DumpOK
<1>3. ASSUME NEW k \in Keys
      PROVE  /\ f # NoDump => f[k] \in MemTiddlers \cup {Absent}
             /\ IF f # NoDump /\ f[k] # Absent /\ Whole(f[k].meta)
                  THEN kv'[k] = [f[k] EXCEPT !.file = Str(NameOf(@))]
                  ELSE kv'[k] = Absent
  BY <1>1 DEF Load, Decoded, Nothing
<1>4. \A k \in Keys : /\ kv'[k] \in MemTiddlers \cup {Absent}
                      /\ kv'[k] # Absent => /\ NameOf(kv'[k].file) \in Files \cup {NoFile}
                                            /\ kv'[k].file = Str(NameOf(kv'[k].file))
  <2> SUFFICES ASSUME NEW k \in Keys
               PROVE  /\ kv'[k] \in MemTiddlers \cup {Absent}
                      /\ kv'[k] # Absent => /\ NameOf(kv'[k].file) \in Files \cup {NoFile}
                                            /\ kv'[k].file = Str(NameOf(kv'[k].file))
    OBVIOUS
  <2>1. CASE f # NoDump /\ f[k] # Absent /\ Whole(f[k].meta)
    <3>1. f[k] \in MemTiddlers /\ kv'[k] = [f[k] EXCEPT !.file = Str(NameOf(@))]
      BY <1>3, <2>1
    <3> QED BY <3>1, DecodedTiddler
  <2>2. CASE ~(f # NoDump /\ f[k] # Absent /\ Whole(f[k].meta))
    BY <1>3, <2>2
  <2> QED BY <2>1, <2>2
<1>5. kv' \in [Keys -> MemTiddlers \cup {Absent}]
  BY <1>1, <1>4 DEF Load, Decoded, Nothing
<1>6. /\ put' = [w \in Putters |-> IdlePut] /\ get' = [r \in Getters |-> IdleGet]
      /\ handed' = NoFile /\ rebound' = {} /\ skipped' = {} /\ phase' = "serve"
      /\ sent' = [k \in Keys |-> s[k].text] /\ mixed' = [k \in Keys |-> s[k].mixed]
      /\ \A w \in Putters : ~Updating(w)'
  BY <1>2, IdleTypes DEF Load, Updating
<1>7. ASSUME NEW file \in Files
      PROVE  /\ Owners(file)' = {k \in Keys : kv'[k] # Absent /\ NameOf(kv'[k].file) = file}
             /\ Cardinality(Owners(file))' \in Nat
             /\ fileRef'[file] = Cardinality(Owners(file))'
  <2>1. Owners(file)' = {k \in Keys : kv'[k] # Absent /\ NameOf(kv'[k].file) = file}
    <3>1. \A k \in Keys : owned'[k] = IF kv'[k] = Absent THEN {}
                                      ELSE Named(NameOf(kv'[k].file))
      BY DEF Load
    <3>2. \A x : file \in Named(x) <=> x = file
      BY DEF Named
    <3> QED BY <3>1, <3>2 DEF Owners
  <2>2. fileRef'[file] = Counted(file)
    BY DEF Load
  <2> QED BY <2>1, <2>2, OwnersFinite DEF Counted
<1>8. Basics'
  <2>1. fileRef' \in [Files -> Nat]
    BY <1>7 DEF Load
  <2>2. owned' \in [Keys -> SUBSET Files]
    BY <1>4 DEF Load, Named
  <2>3. CacheTypeOK(MemListings)'
    BY CacheRestartType DEF Load
  <2>4. TypeOK'
    BY <1>5, <1>6, <2>1, <2>2, <2>3, IdleTypes DEF TypeOK
  <2>5. \A w \in Putters : PutOK(w)'
    BY <1>6, IdleTypes DEF PutOK, Updating
  <2>6. \A r \in Getters : GetOK(r)'
    BY <1>6, IdleTypes DEF GetOK, Reading
  <2> QED BY <2>4, <2>5, <2>6 DEF Basics
<1>9. RefInv'
  <2>1. OwnedOK'
    <3>1. ASSUME NEW k \in Keys, kv'[k] # Absent
          PROVE  (Bound(k, kv[k].file.data) /\ Bound(k, kv[k].file.size))'
      <4>1. /\ NameOf(kv'[k].file) \in Files \cup {NoFile}
            /\ kv'[k].file = Str(NameOf(kv'[k].file))
        BY <1>4, <3>1
      <4>2. owned'[k] = Named(NameOf(kv'[k].file))
        BY <3>1 DEF Load
      <4>3. /\ kv'[k].file.data = NameOf(kv'[k].file)
            /\ kv'[k].file.size = NameOf(kv'[k].file)
        BY <4>1 DEF Str
      <4> QED BY <4>1, <4>2, <4>3 DEF Bound, Named
    <3> QED BY <3>1 DEF OwnedOK
  <2>2. RefsCover'
    BY <1>6, <1>7 DEF RefsCover, Owners
  <2>3. HandOK' /\ HandedIsUnbound'
    BY <1>6 DEF HandOK, HandedIsUnbound
  <2> QED BY <1>8, <2>1, <2>2, <2>3 DEF RefInv
<1>10. UpdateInv'
  <2>1. \A w \in Putters : SentWhole(w)'
    BY <1>6 DEF SentWhole, IdlePut, Str, Whole
  <2>2. ASSUME NEW k \in Keys, ~mixed'[k]
        PROVE  Settled(k)'
    <3>1. ~s[k].mixed /\ sent'[k] = s[k].text
      BY <1>6, <2>2
    <3>2. IF f = NoDump THEN s[k].text = Absent
          ELSE IF f[k] = Absent THEN s[k].text = Absent
          ELSE Consistent(f[k]) /\ f[k].text = Str(s[k].text)
      BY <1>1, <1>2, <3>1 DEF DumpOK, Saved
    <3>3. CASE f # NoDump /\ f[k] # Absent
      <4>1. Consistent(f[k]) /\ f[k].text = Str(s[k].text) /\ f[k] \in MemTiddlers
        BY <1>3, <3>2, <3>3
      <4>2. Whole(f[k].meta)
        BY <4>1 DEF Consistent, Whole, Str
      <4>3. kv'[k] = [f[k] EXCEPT !.file = Str(NameOf(@))]
        BY <1>3, <3>3, <4>2
      <4>4. /\ kv'[k] \in MemTiddlers
            /\ kv'[k].rev = f[k].rev /\ kv'[k].meta = f[k].meta
            /\ kv'[k].text = f[k].text /\ kv'[k].hash = f[k].hash
        BY <4>1, <4>3, DecodedTiddler
      <4>5. Consistent(kv'[k])
        BY <4>1, <4>4 DEF Consistent
      <4> QED BY <3>1, <4>1, <4>4, <4>5 DEF Settled
    <3>4. CASE ~(f # NoDump /\ f[k] # Absent)
      BY <1>3, <3>1, <3>2, <3>4 DEF Settled
    <3> QED BY <3>3, <3>4
  <2> QED BY <1>6, <1>8, <2>1, <2>2 DEF UpdateInv
<1> QED BY <1>6, <1>9, <1>10 DEF ServerInv, Waited

(* A server that starts for the first time.                                *)
LEMMA ServerStart == ServerInit => ServerInv
<1> SUFFICES ASSUME ServerInit PROVE ServerInv
  OBVIOUS
<1>1. DumpOK /\ Waited
  BY DEF ServerInit, DumpOK, Waited, NothingSafe
<1> QED BY <1>1, RefInit, UpdateInit DEF ServerInit, ServerInv

(* Every step of the server keeps the store and its file in order.         *)
LEMMA ServerStep == ServerInv /\ [ServerNext]_serverVars => ServerInv'
<1> SUFFICES ASSUME ServerInv, [ServerNext]_serverVars PROVE ServerInv'
  OBVIOUS
<1>0. RefInv /\ UpdateInv /\ DumpOK /\ Waited
  BY DEF ServerInv
<1>1. ASSUME [Next]_vars, UNCHANGED <<dump, safe>>, phase' \in {"serve", "dump"}
      PROVE  RefInv' /\ UpdateInv'
  BY <1>0, <1>1, RefStep, UpdateStep
<1>2. CASE Serve
  <2>1. DumpOK' /\ Waited'
    BY <1>0, <1>2 DEF Serve, DumpOK, Saved, Waited
  <2> QED BY <1>1, <1>2, <2>1 DEF Serve, ServerInv
<1>3. CASE Truncate
  <2>1. RefInv' /\ UpdateInv'
    BY <1>0, <1>3, RefStep, UpdateStep DEF Truncate
  <2>2. DumpOK'
    BY <1>3 DEF Truncate, DumpOK, NothingSafe
  <2>3. Waited'
    BY <1>3 DEF Truncate, Drained, Waited, vars, memVars
  <2> QED BY <2>1, <2>2, <2>3 DEF ServerInv
<1>4. CASE WriteDump
  <2>1. /\ kv \in [Keys -> MemTiddlers \cup {Absent}] /\ mixed \in [Keys -> BOOLEAN]
        /\ sent \in [Keys -> Texts \cup {Absent}]
    BY <1>0 DEF UpdateInv, Basics, TypeOK
  <2>2. /\ dump' = kv /\ phase' = "serve"
        /\ safe' = [k \in Keys |-> [text |-> sent[k], mixed |-> mixed[k]]]
    BY <1>4 DEF WriteDump, Load
  <2>3. \A k \in Keys : ~mixed[k] => Settled(k)
    <3>1. \A w \in Putters : ~Updating(w)
      BY <1>0, <1>4 DEF WriteDump, Waited, Updating
    <3> QED BY <1>0, <3>1 DEF UpdateInv, UpdatersOf
  <2>4. dump' # NoDump
    BY <2>1, <2>2
  <2>5. DumpOK'
    <3>1. safe' \in [Keys -> [text : Texts \cup {Absent}, mixed : BOOLEAN]]
      BY <2>1, <2>2
    <3>2. ASSUME NEW k \in Keys, ~safe'[k].mixed PROVE Saved(k)'
      BY <2>2, <2>3, <3>2 DEF Saved, Settled
    <3> QED BY <2>1, <2>2, <2>4, <3>1, <3>2 DEF DumpOK
  <2> QED BY <1>4, <2>5, LoadStep DEF WriteDump
<1>5. CASE Kill
  <2>1. DumpOK'
    BY <1>0, <1>5 DEF Kill, Load, DumpOK, Saved
  <2> QED BY <1>5, <2>1, LoadStep DEF Kill
<1>6. CASE UNCHANGED serverVars
  <2>1. RefInv' /\ UpdateInv'
    BY <1>0, <1>6, RefStep, UpdateStep DEF serverVars
  <2>2. DumpOK' /\ Waited'
    BY <1>0, <1>6 DEF serverVars, vars, memVars, DumpOK, Saved, Waited
  <2> QED BY <2>1, <2>2 DEF ServerInv
<1> QED BY <1>2, <1>3, <1>4, <1>5, <1>6 DEF ServerNext

(* Wherever the process is killed, in a dump or out of it.                 *)
THEOREM ServerAlways == ServerSpec => []ServerInv
  BY ServerStart, ServerStep, PTL DEF ServerSpec

(* The store and its file are always well-formed.                          *)
THEOREM ServerTypeCorrect == ServerSpec => []ServerTypeOK
<1>1. ServerInv => ServerTypeOK
  BY DEF ServerInv, RefInv, Basics, DumpOK, ServerTypeOK
<1> QED BY <1>1, ServerAlways, PTL

(* After a dump and a load a title still has the text last sent for it,    *)
(* unless the updates that left it overlapped; what a kill loses it loses  *)
(* as a whole.                                                             *)
THEOREM RestartKeepsText == ServerSpec => []LastSentIsStored
<1>1. ServerInv => LastSentIsStored
  BY SettledShown DEF ServerInv
<1> QED BY <1>1, ServerAlways, PTL

(* Under the same condition it still agrees with itself.                   *)
THEOREM RestartKeepsHash == ServerSpec => []ConsistentUnlessMixed
<1>1. ServerInv => ConsistentUnlessMixed
  BY SettledShown DEF ServerInv
<1> QED BY <1>1, ServerAlways, PTL

(* The counts, which are not dumped but counted again, stay sufficient ... *)
THEOREM RestartCounts == ServerSpec => []RefsCover
<1>1. ServerInv => RefsCover
  BY DEF ServerInv, RefInv
<1> QED BY <1>1, ServerAlways, PTL

(* ... and an attachment is never handed back while a title names it.      *)
THEOREM RestartHandsBack == ServerSpec => []HandedIsUnbound
<1>1. ServerInv => HandedIsUnbound
  BY DEF ServerInv, RefInv
<1> QED BY <1>1, ServerAlways, PTL

=============================================================================
