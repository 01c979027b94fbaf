----------------------------- MODULE HasPresets -----------------------------
(* The hearing aid client (lepl_has.c): the sorted list of preset records   *)
(* that it keeps of a hearing aid, fed by read responses and by "preset     *)
(* changed" indications, and the commands of the host.  The hearing aid is  *)
(* external: a set of presets, its active one, a user who changes them, and *)
(* a reading that it answers with one indication after the other, between   *)
(* which other ones may go out.  A name is one of two, the old and the new. *)
EXTENDS Integers, Sequences, FiniteSets

CONSTANTS
    MaxRecords,   \* LEPL_HAS_MAX_PRESET_RECORDS (5), also the number read at once
    MaxIndex,     \* preset indices of the hearing aid are 1 .. MaxIndex
    MaxRequests,  \* bound: commands of the host
    MaxChanges    \* bound: changes by the user of the hearing aid

ASSUME PresetsAssumption ==
    /\ MaxRecords \in Nat \ {0}
    /\ MaxIndex \in Nat
    /\ MaxRequests \in Nat
    /\ MaxChanges \in Nat

VARIABLES
    list,     \* preset_rec_list
    act,      \* active_preset_index of the client
    presets,  \* the presets of the hearing aid
    active,   \* its active preset, 0: none
    req,      \* writes to the control point under way, oldest first
    reading,  \* the reading that the hearing aid is answering
    ind,      \* indications under way, oldest first
    upto,     \* history: presets up to this index were read, and no update came since
    used      \* what has been used of the bounds

vars == <<list, act, presets, active, req, reading, ind, upto, used>>

Positions == 1 .. MaxRecords
Indices   == 1 .. MaxIndex

\* lepl_has_preset_rec_t: index 0 marks an unused entry; the properties are
\* "writable" and "available".
Record == [index : 0 .. MaxIndex, writable : BOOLEAN, available : BOOLEAN, name : {"old", "new"}]
Empty  == [index |-> 0, writable |-> FALSE, available |-> FALSE, name |-> "old"]

\* Preset: a record of the hearing aid.
Preset == {r \in Record : r.index # 0}

\* READ_PRESETS_REQUEST, WRITE_PRESET_NAME, SET_ACTIVE, SET_NEXT and
\* SET_PREVIOUS; what a request does not carry is 0.
Requests == [op : {"READ", "NAME", "SET", "NEXT", "PREVIOUS"}, index : 0 .. MaxIndex]

\* READ_PRESET_RESPONSE, the four kinds of PRESET_CHANGED, and the active
\* preset index.  History: "upto" of a response is the index up to which its
\* reading has told all presets, 0 when an update went out in between.
Indication ==
    [t : {"RESPONSE"}, rec : Preset, upto : 0 .. MaxIndex]
      \union {u \in [t : {"UPDATE"}, prev : 0 .. MaxIndex, rec : Preset] : u.prev < u.rec.index}
      \union [t : {"DELETED", "AVAILABLE", "UNAVAILABLE", "ACTIVE"}, index : 0 .. MaxIndex]

\* The variables keep their types.
TypeOK ==
    /\ list \in [Positions -> Record]
    /\ act \in 0 .. MaxIndex
    /\ presets \subseteq Preset
    /\ active \in 0 .. MaxIndex
    /\ req \in Seq(Requests)
    /\ reading \in [next : Nat, left : 0 .. MaxRecords, calm : BOOLEAN]
    /\ ind \in Seq(Indication)
    /\ upto \in 0 .. MaxIndex
    /\ used \in [req : 0 .. MaxRequests, chg : 0 .. MaxChanges]

\* A link to a hearing aid has just been set up: the active preset was read,
\* the list is empty.
Init ==
    /\ list = [p \in Positions |-> Empty]
    /\ presets = {[index |-> i, writable |-> TRUE, available |-> TRUE, name |-> "old"] : i \in Indices \ {2}}
    /\ active = 0
    /\ act = active
    /\ req = <<>>
    /\ reading = [next |-> 1, left |-> 0, calm |-> FALSE]
    /\ ind = <<>>
    /\ upto = 0
    /\ used = [req |-> 0, chg |-> 0]

----------------------------------------------------------------------------
(* The list.  A position of 0 stands for the -1 of the code.                *)

\* lepl_search_preset_index.
Finds(i, p) ==
    IF p = 0 THEN \A q \in Positions : list[q].index # i \/ i = 0
    ELSE /\ i # 0 /\ list[p].index = i
         /\ \A q \in 1 .. p - 1 : list[q].index # i

\* predict_pos_of_preset_rec_in_list: the first entry that is free or has an
\* index that is not lower.
Fits(i, p) == list[p].index >= i \/ list[p].index = 0
Predicts(i, p) ==
    IF p = 0 THEN \A q \in Positions : ~Fits(i, q)
    ELSE Fits(i, p) /\ \A q \in 1 .. p - 1 : ~Fits(i, q)

\* Mutants: a record that was not found is deleted before the list; the entry
\* after the deleted one goes too.
DeletedUnchecked(l, from, to) ==
    [p \in (IF from < 1 THEN from .. MaxRecords ELSE Positions) |->
        IF p < from THEN l[p]
        ELSE IF p + (to - from + 1) <= MaxRecords THEN l[p + (to - from + 1)]
        ELSE Empty]
DeletedTwo(l, from, to) ==
    IF from < 1 \/ to > MaxRecords \/ from > to THEN l
    ELSE [p \in Positions |-> IF p < from THEN l[p]
                              ELSE IF p + (to - from + 2) <= MaxRecords THEN l[p + (to - from + 2)]
                              ELSE Empty]

\* lepl_hap_delete_preset_rec: the entries after "to" move up, the end is
\* cleared; parameters out of range are refused.  The code moves them with a
\* WICED_MEMCPY whose ranges overlap; it is taken for the copy in ascending
\* order that it is meant to be.
Deleted(l, from, to) ==
    IF from < 1 \/ to > MaxRecords \/ from > to THEN l
    ELSE [p \in Positions |-> IF p < from THEN l[p]
                              ELSE IF p + (to - from + 1) <= MaxRecords THEN l[p + (to - from + 1)]
                              ELSE Empty]

\* The first position from pos on whose index is not lower than that of rec,
\* MaxRecords + 1 when there is none; a free entry counts as lower.
NextHigher(pos, rec, n) ==
    /\ n >= pos
    /\ \A q \in pos .. n - 1 : q \in Positions /\ rec.index > list[q].index
    /\ n \in Positions => ~(rec.index > list[n].index)

\* lepl_hap_add_preset_rec_to_list at a position of the list: an entry of the
\* same index and the last entry are overwritten; otherwise the record takes
\* the place of the lower ones from pos on, or is inserted.
AddAt(pos, rec) ==
    IF rec.index = list[pos].index \/ pos = MaxRecords
    THEN list' = [list EXCEPT ![pos] = rec]
    ELSE \E n \in Positions \union {MaxRecords + 1} :
           /\ NextHigher(pos, rec, n)
           /\ list' =
                IF n = MaxRecords + 1
                THEN [p \in Positions |-> IF p < pos THEN list[p] ELSE IF p = pos THEN rec ELSE Empty]
                ELSE IF n > pos
                THEN [Deleted(list, pos, n - 1) EXCEPT ![pos] = rec]
                ELSE [p \in Positions |-> IF p < pos THEN list[p] ELSE IF p = pos THEN rec
                                          ELSE list[p - 1]]

\* Mutant: an entry is always inserted, what it replaces is not looked for.
AddInserts(pos, rec) ==
    IF pos = 0 THEN UNCHANGED list
    ELSE IF rec.index = list[pos].index \/ pos = MaxRecords
    THEN list' = [list EXCEPT ![pos] = rec]
    ELSE list' = [p \in Positions |-> IF p < pos THEN list[p] ELSE IF p = pos THEN rec ELSE list[p - 1]]

\* lepl_hap_add_preset_rec_to_list: a position out of range is refused.
Add(pos, rec) == IF pos = 0 THEN UNCHANGED list ELSE AddAt(pos, rec)

----------------------------------------------------------------------------
(* Indications: lepl_has_handle_received_characteristics_value.             *)
Received == ind # <<>> /\ ind' = Tail(ind)

\* lepl_hap_handle_read_preset_response.
ReadResponse ==
    /\ Received
    /\ Head(ind).t = "RESPONSE"
    /\ LET rec == Head(ind).rec
       IN  \E p \in 0 .. MaxRecords :
             /\ IF Finds(rec.index, 0) THEN Predicts(rec.index, p) ELSE Finds(rec.index, p)
             /\ Add(p, rec)
    /\ upto' = IF Head(ind).upto > upto THEN Head(ind).upto ELSE upto
    /\ UNCHANGED <<act, presets, active, req, reading, used>>

\* GA_LIB_HAS_GENERIC_UPDATE: the place is looked up for the previous index.
GenericUpdate ==
    /\ Received
    /\ Head(ind).t = "UPDATE"
    /\ \E p \in 0 .. MaxRecords : Predicts(Head(ind).prev, p) /\ Add(p, Head(ind).rec)
    /\ upto' = 0
    /\ UNCHANGED <<act, presets, active, req, reading, used>>

\* GA_LIB_HAS_PRESET_RECORD_DELETED.
RecordDeleted ==
    /\ Received
    /\ Head(ind).t = "DELETED"
    /\ \E p \in 0 .. MaxRecords : Finds(Head(ind).index, p) /\ list' = Deleted(list, p, p)
    /\ UNCHANGED <<act, presets, active, req, reading, upto, used>>

\* Mutant: the bit is set but not cleared.
RecordAvailableOnly ==
    /\ Received
    /\ Head(ind).t \in {"AVAILABLE", "UNAVAILABLE"}
    /\ \E p \in 0 .. MaxRecords :
         /\ Finds(Head(ind).index, p)
         /\ list' = IF p = 0 THEN list ELSE [list EXCEPT ![p].available = TRUE]
    /\ UNCHANGED <<act, presets, active, req, reading, upto, used>>

\* GA_LIB_HAS_PRESET_RECORD_AVAILABLE and _UNAVAILABLE.
RecordAvailable ==
    /\ Received
    /\ Head(ind).t \in {"AVAILABLE", "UNAVAILABLE"}
    /\ \E p \in 0 .. MaxRecords :
         /\ Finds(Head(ind).index, p)
         /\ list' = IF p = 0 THEN list
                    ELSE [list EXCEPT ![p].available = (Head(ind).t = "AVAILABLE")]
    /\ UNCHANGED <<act, presets, active, req, reading, upto, used>>

ActivePresetIndex ==
    /\ Received
    /\ Head(ind).t = "ACTIVE"
    /\ act' = Head(ind).index
    /\ UNCHANGED <<list, presets, active, req, reading, upto, used>>

----------------------------------------------------------------------------
(* Commands of the host.                                                    *)
CanAsk == used.req < MaxRequests /\ used' = [used EXCEPT !.req = @ + 1]

\* lepl_rpc_has_cp_read_preset_records.
ReadPresets ==
    /\ CanAsk
    /\ req' = Append(req, [op |-> "READ", index |-> 0])
    /\ UNCHANGED <<list, act, presets, active, reading, ind, upto>>

\* lepl_rpc_has_cp_set_active_preset.
SetActive(op, i) ==
    /\ CanAsk
    /\ op # "SET" => i = 0
    /\ req' = Append(req, [op |-> op, index |-> i])
    /\ UNCHANGED <<list, act, presets, active, reading, ind, upto>>

\* lepl_rpc_has_cp_set_preset_name: only for a listed, writable preset.
SetName(i) ==
    /\ CanAsk
    /\ \E p \in Positions : Finds(i, p) /\ list[p].writable
    /\ req' = Append(req, [op |-> "NAME", index |-> i])
    /\ UNCHANGED <<list, act, presets, active, reading, ind, upto>>

----------------------------------------------------------------------------
(* The hearing aid.                                                         *)
Usable == {r.index : r \in {s \in presets : s.available}}

\* p is the index of the preset before i, 0 when i is the first.
Previous(i, p) ==
    /\ p = 0 \/ \E r \in presets : r.index = p
    /\ \A r \in presets : r.index < i => r.index <= p

\* r is the next preset that the reading has to tell.
NextToTell(r) ==
    r \in presets /\ r.index >= reading.next
    /\ \A s \in presets : s.index >= reading.next => r.index <= s.index

\* The index up to which all presets are told once r is.
Told(r) ==
    IF ~reading.calm THEN 0
    ELSE IF \E s \in presets : s.index > r.index THEN r.index
    ELSE MaxIndex

\* One response of the reading goes out (ga_lib_has_notify_read_preset_rsp);
\* it ends after MaxRecords of them, or when there is no preset left to tell.
Respond ==
    /\ reading.left > 0
    /\ \/ \E r \in presets :
             /\ NextToTell(r)
             /\ ind' = Append(ind, [t |-> "RESPONSE", rec |-> r, upto |-> Told(r)])
             /\ reading' = [reading EXCEPT !.next = r.index + 1, !.left = @ - 1]
       \/ /\ \A r \in presets : r.index < reading.next
          /\ reading' = [reading EXCEPT !.left = 0]
          /\ UNCHANGED ind
    /\ UNCHANGED <<list, act, presets, active, req, upto, used>>

\* i is the preset that a request makes active: the one it names, or the next
\* or previous one that is available, around the ends; otherwise the active
\* one stays.
Chosen(r, i) ==
    IF r.op = "SET" THEN i = IF r.index \in Usable THEN r.index ELSE active
    ELSE IF Usable = {} THEN i = active
    ELSE LET beyond(j)  == IF r.op = "NEXT" THEN j > active ELSE j < active
             near(j, k) == IF r.op = "NEXT" THEN j <= k ELSE j >= k
         IN  /\ i \in Usable
             /\ \A j \in Usable : IF beyond(i) THEN beyond(j) => near(i, j)
                                  ELSE ~beyond(j) /\ near(i, j)

\* The update that reports preset r.
Updates(r) ==
    /\ \E p \in 0 .. r.index - 1 :
          Previous(r.index, p) /\ ind' = Append(ind, [t |-> "UPDATE", prev |-> p, rec |-> r])
    /\ reading' = [reading EXCEPT !.calm = FALSE]

\* The hearing aid takes up the oldest request; a reading waits for the one
\* before it.
Serve ==
    /\ req # <<>>
    /\ req' = Tail(req)
    /\ \/ /\ Head(req).op = "READ"
          /\ reading.left = 0
          /\ reading' = [next |-> 1, left |-> MaxRecords, calm |-> TRUE]
          /\ UNCHANGED <<presets, active, ind>>
       \/ /\ Head(req).op \in {"SET", "NEXT", "PREVIOUS"}
          /\ \E i \in 0 .. MaxIndex :
                /\ Chosen(Head(req), i)
                /\ active' = i
                /\ ind' = IF i = active THEN ind ELSE Append(ind, [t |-> "ACTIVE", index |-> i])
          /\ UNCHANGED <<presets, reading>>
       \/ /\ Head(req).op = "NAME"
          /\ \/ \E r \in presets :
                  LET n == [r EXCEPT !.name = "new"]
                  IN  /\ r.index = Head(req).index /\ r.writable
                      /\ presets' = (presets \ {r}) \union {n}
                      /\ Updates(n)
             \/ /\ \A r \in presets : r.index # Head(req).index \/ ~r.writable
                /\ UNCHANGED <<presets, reading, ind>>
          /\ UNCHANGED active
    /\ UNCHANGED <<list, act, upto, used>>

CanChange == used.chg < MaxChanges /\ used' = [used EXCEPT !.chg = @ + 1]

\* The user adds a preset, removes one that is not active, makes one
\* available or unavailable, or chooses another one.
UserAdds(i) ==
    /\ CanChange
    /\ \A r \in presets : r.index # i
    /\ LET n == [index |-> i, writable |-> FALSE, available |-> TRUE, name |-> "old"]
       IN  presets' = presets \union {n} /\ Updates(n)
    /\ UNCHANGED <<list, act, active, req, upto>>

UserRemoves(r) ==
    /\ CanChange
    /\ r.index # active
    /\ presets' = presets \ {r}
    /\ ind' = Append(ind, [t |-> "DELETED", index |-> r.index])
    /\ UNCHANGED <<list, act, active, req, reading, upto>>

UserToggles(r) ==
    /\ CanChange
    /\ r.index # active
    /\ presets' = (presets \ {r}) \union {[r EXCEPT !.available = ~@]}
    /\ ind' = Append(ind, [t |-> IF r.available THEN "UNAVAILABLE" ELSE "AVAILABLE", index |-> r.index])
    /\ UNCHANGED <<list, act, active, req, reading, upto>>

UserChooses(i) ==
    /\ CanChange
    /\ i # active
    /\ active' = i
    /\ ind' = Append(ind, [t |-> "ACTIVE", index |-> i])
    /\ UNCHANGED <<list, act, presets, req, reading, upto>>

Next ==
    \/ ReadResponse \/ GenericUpdate \/ RecordDeleted \/ RecordAvailable \/ ActivePresetIndex
    \/ ReadPresets
    \/ \E op \in {"SET", "NEXT", "PREVIOUS"}, i \in 0 .. MaxIndex : SetActive(op, i)
    \/ \E i \in Indices : SetName(i) \/ UserAdds(i)
    \/ Serve \/ Respond
    \/ \E r \in presets : UserRemoves(r) \/ UserToggles(r)
    \/ \E i \in Usable : UserChooses(i)

Spec == Init /\ [][Next]_vars

----------------------------------------------------------------------------
(* The used entries of the list come first, by ascending index, none twice: *)
(* the searches of the code and the shifts of entries rely on it, and no    *)
(* order of responses, updates and deletions breaks it (lepl_has.c:65).     *)
Sorted ==
    \A p, q \in Positions :
        p < q /\ list[q].index # 0 => list[p].index # 0 /\ list[p].index < list[q].index

(* When nothing is under way, the client lists no preset that the hearing   *)
(* aid does not have, and every listed record, its properties and its name, *)
(* is that of the hearing aid; and the client knows the active preset.      *)
NoGhosts ==
    ind = <<>> => /\ \A p \in Positions : list[p] = Empty \/ list[p] \in presets
                  /\ act = active

(* A reading lists the presets it has told, whatever updates have taken out *)
(* of the list before: once an answer has come in and nothing else is under *)
(* way, all presets up to the one it told are listed, also when presets     *)
(* were removed, chosen or made unavailable between two answers.  An update *)
(* (lepl_has.c:264) may push records out, in the middle of a reading too;   *)
(* then nothing is claimed until the next reading.                          *)
ReadCompletes ==
    ind = <<>> => \A r \in presets : r.index <= upto => \E p \in Positions : list[p] = r
=============================================================================
