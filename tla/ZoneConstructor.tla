-------------------------- MODULE ZoneConstructor --------------------------
(***************************************************************************)
(* The zone constructor (dns-zone-constructor-1.0/zone/convert): from the  *)
(* answers that a recursive server got, one directory of captured messages *)
(* for each query, it builds the zone files and the views of one server    *)
(* that plays all authoritative servers.  A view is chosen by the address  *)
(* under which a server was asked, and within a view the innermost zone.   *)
(*                                                                         *)
(* A domain name is the sequence of its labels, leaf first; the root is    *)
(* the empty one.  A record is [name, type, data]; "A" stands for both     *)
(* types of addresses, and times to live and classes are left out.  Names  *)
(* are in lower case, as the code makes them wherever it compares them but *)
(* for one place, for which Capitals tells how they were captured.         *)
(***************************************************************************)
EXTENDS Integers, Sequences, FiniteSets, SequencesExt

CONSTANTS
  Inputs,          \* what the input directory may hold: sets of directories,
                   \* each a sequence of messages [qr, src, ans, aut, add]
  NameOrder,       \* all names, as Python sorts them
  PartialLabels,   \* pairs of labels, the second a textual suffix of the first
  Capitals,        \* names with those of their textual ends that the answers
                   \* write with a capital letter, where they are NS data
  Singletons,      \* types of which dnspython keeps one record of a name: SOA
                   \* and others, which depend on its version
  RootHint,        \* the records of the root hint file
  rec_addr         \* --recursive-address

root         == <<>>
root_servers == <<"root-servers", "net">>
Names        == ToSet(NameOrder)

ASSUME ZoneAssumption ==
  /\ NameOrder \in Seq(Seq(STRING)) /\ root \in Names /\ root_servers \in Names
  /\ \A r \in RootHint : r.name \in Seq(STRING)
  /\ \A dir \in UNION Inputs :
       /\ dir # <<>> /\ dir \in Seq(ToSet(dir))
       /\ \A msg \in ToSet(dir) : \A r \in msg.ans \cup msg.aut :
            r.type = "NS" => r.name \in Names

ASSUME CapitalsAssumption   == \A c \in Capitals : c \in Seq(STRING) \X Seq(STRING)
ASSUME SingletonsAssumption ==
  "SOA" \in Singletons /\ "NS" \notin Singletons /\ "A" \notin Singletons

VARIABLES
  input,           \* the directories, in no order (os.listdir)
  done,            \* the directories processed, in their order
  dns_msg,         \* the messages of the directory in hand still to be pushed
  name2zone,       \* the records of each zone that exists
  addr2name,       \* the zones of each address that is known
  views,           \* the views still to be written
  phase            \* "dirs", "push", "views", "written", "exit" or "keyerror"

vars == <<input, done, dns_msg, name2zone, addr2name, views, phase>>

-----------------------------------------------------------------------------
(* Names and records.                                                      *)

(* name == z or name.endswith('.' + z)                                     *)
Under(name, z) == IsSuffix(z, name)

(* name.endswith(z), as text: the first label of z may be a part of one.   *)
EndsWith(name, z) ==
  \/ IsSuffix(z, name)
  \/ /\ z # root /\ Len(z) <= Len(name)
     /\ IsSuffix(Tail(z), name)
     /\ <<name[Len(name) - Len(z) + 1], z[1]>> \in PartialLabels

(* The same for a name that add_record has not put into lower case.        *)
EndsAsWritten(name, z) == EndsWith(name, z) /\ <<name, z>> \notin Capitals

(* DNSZone.get_rrset_str and get_record_rdata for two types.               *)
NS(records, name) == {r \in records : r.type = "NS" /\ r.name = name}
A(records, name)  == {r \in records : r.type = "A" /\ r.name = name}

(* DNSZone.add_record for each of new: a SOA of another zone is passed     *)
(* over; of a type in Singletons dnspython keeps the last record of a name.*)
AddRecords(records, z, new) ==
  LET mine == {r \in new : r.type = "SOA" => r.name = z}
  IN {r \in records : r.type \in Singletons =>
        ~ \E s \in mine : s.type = r.type /\ s.name = r.name} \cup mine

(* The fake SOA record of a new DNSZone.                                   *)
NewZone(z) == {[name |-> z, type |-> "SOA", data |-> "fake"]}

-----------------------------------------------------------------------------
(* process_root_hint: the zones '.' and root-servers.net, at the addresses *)
(* of all root servers; the second gets the NS records as its own.         *)
HintAddrs == {r.data : r \in UNION {A(RootHint, ns.data) : ns \in NS(RootHint, root)}}
HintNS    == {[name |-> root_servers, type |-> "NS", data |-> r.data] :
                r \in {s \in RootHint : s.type = "NS"}}

Init ==
  /\ input \in Inputs /\ done = <<>> /\ dns_msg = <<>>
  /\ name2zone = [z \in {root, root_servers} |->
                    AddRecords(NewZone(z), z, IF z = root THEN RootHint ELSE HintNS)]
  /\ addr2name = [a \in HintAddrs |-> {root, root_servers}]
  /\ views = {} /\ phase = "dirs"

(* read_dns_message: answers only, not those of the recursive server       *)
(* itself, and without records dnspython cannot handle.                    *)
Usable(msg) == msg.qr /\ msg.src # rec_addr
Clean(records) == {r \in records : r.type # "TYPE0"}
Cleaned(msg) == [src |-> msg.src, ans |-> Clean(msg.ans), aut |-> Clean(msg.aut),
                 add |-> Clean(msg.add)]
ReadDnsMessage(dir) ==
  LET read[i \in 0 .. Len(dir)] ==
        IF i = 0 THEN <<>>
        ELSE IF Usable(dir[i]) THEN Append(read[i - 1], Cleaned(dir[i])) ELSE read[i - 1]
  IN read[Len(dir)]

Section(msgs, s) == UNION {msgs[i][s] : i \in DOMAIN msgs}

(* create_zone for every message: the owner of an NS record becomes a zone *)
(* at the addresses that its servers have in this directory, with its NS   *)
(* records and the addresses of the servers inside the zone.  rrs holds    *)
(* all records of the directory.                                           *)
DelegationsAnswered(msgs) == {r \in Section(msgs, "ans") : r.type = "NS"}   \* mutant
Delegations(msgs) ==
  {r \in Section(msgs, "ans") \cup Section(msgs, "aut") : r.type = "NS"}

Rrs(msgs) == Section(msgs, "ans") \cup Section(msgs, "aut") \cup Section(msgs, "add")

ZoneRecords(msgs, z) ==
  LET own == {r \in Delegations(msgs) : r.name = z}
  IN NS(Rrs(msgs), z)
       \cup UNION {A(Rrs(msgs), r.data) : r \in {s \in own : Under(s.data, z)}}

(* The addresses at which a directory shows zone z to be served.           *)
ZoneAddrs(msgs, z) ==
  {a.data : a \in UNION {A(Rrs(msgs), r.data) : r \in {s \in Delegations(msgs) : s.name = z}}}

(* add_name2zone and add_addr2name for the zones of a directory.           *)
Created(msgs) == {r.name : r \in Delegations(msgs)}
WithZones(msgs) ==
  [z \in DOMAIN name2zone \cup Created(msgs) |->
     LET old == IF z \in DOMAIN name2zone THEN name2zone[z] ELSE NewZone(z)
     IN IF z \in Created(msgs) THEN AddRecords(old, z, ZoneRecords(msgs, z)) ELSE old]

WithAddrs(msgs) ==
  [a \in DOMAIN addr2name \cup UNION {ZoneAddrs(msgs, z) : z \in Created(msgs)} |->
     (IF a \in DOMAIN addr2name THEN addr2name[a] ELSE {})
       \cup {z \in Created(msgs) : a \in ZoneAddrs(msgs, z)}]

(* process_dir up to the second loop of process_dns_message; the messages  *)
(* are pushed in the order of msgid, which is that of the directory.       *)
ProcessDir(dir) ==
  /\ phase = "dirs" /\ dir \in input \ ToSet(done)
  /\ LET msgs == ReadDnsMessage(dir)
     IN name2zone' = WithZones(msgs) /\ addr2name' = WithAddrs(msgs) /\ dns_msg' = msgs
  /\ done' = Append(done, dir)
  /\ phase' = IF dns_msg' = <<>> THEN "dirs" ELSE "push"
  /\ UNCHANGED <<input, views>>

(* find_zone: the longest zone of the address that the name is in.         *)
FindZoneShortest(src, name) ==   \* mutant
  LET zones == {z \in addr2name[src] : Under(name, z)}
  IN {z \in zones : \A y \in zones : Len(z) <= Len(y)}
FindZoneText(src, name) ==   \* mutant: name.endswith(n), without the dot
  LET zones == {z \in addr2name[src] : EndsWith(name, z)}
  IN {z \in zones : \A y \in zones : Len(y) <= Len(z)}
FindZone(src, name) ==
  LET zones == {z \in addr2name[src] : Under(name, z)}
  IN {z \in zones : \A y \in zones : Len(y) <= Len(z)}

(* push_zone for the three sections of the next message: a record without  *)
(* a zone is dropped with a warning, an unknown server ends the program.   *)
PushMessage ==
  LET msg     == Head(dns_msg)
      records == Rrs(<<msg>>)
  IN /\ phase = "push"
     /\ dns_msg' = Tail(dns_msg)
     /\ \/ /\ records # {} /\ msg.src \notin DOMAIN addr2name
           /\ phase' = "exit" /\ UNCHANGED name2zone
        \/ /\ records = {} \/ msg.src \in DOMAIN addr2name
           /\ name2zone' = [z \in DOMAIN name2zone |->
                AddRecords(name2zone[z], z, {r \in records : z \in FindZone(msg.src, r.name)})]
           /\ phase' = IF dns_msg' = <<>> THEN "dirs" ELSE "push"
     /\ UNCHANGED <<input, done, addr2name, views>>

(* write_to_file joins the addresses that have the same set of zones.      *)
StartWriting ==
  /\ phase = "dirs" /\ input = ToSet(done)
  /\ views' = {addr2name[a] : a \in DOMAIN addr2name}
  /\ phase' = "views"
  /\ UNCHANGED <<input, done, dns_msg, name2zone, addr2name>>

(* Of two ends of one name, which is the longer text.                      *)
Longer(y, t) ==
  Len(y) > Len(t) \/ (Len(y) = Len(t) /\ y # t /\ <<y[1], t[1]>> \in PartialLabels)

(* fix_delegation, the choice of tmp_z for an NS record of zone z: the     *)
(* longest other zone of the view that the owner's name ends with.         *)
TmpZone(view, z, r) ==
  LET cand == {t \in view \ {z, root, r.name} : EndsWith(r.name, t) /\ Longer(t, z)}
  IN {t \in cand : \A y \in cand : ~Longer(y, t)}

(* The records that zone z gives to zone t of its view: delegations from   *)
(* inside t, and the addresses of their servers inside t, if z delegates t.*)
(* ns_server.endswith(tmp_z) looks at the name as it was captured.         *)
MovedSwapped(zones, view, z, t) ==   \* mutant: asks t for the NS records of z
  LET cuts == {r \in zones[z] : r.type = "NS" /\ t \in TmpZone(view, z, r)}
  IN IF z = root \/ NS(zones[t], z) = {} THEN {}
     ELSE cuts \cup UNION {A(zones[z], r.data) : r \in {s \in cuts : EndsAsWritten(s.data, t)}}
Moved(zones, view, z, t) ==
  LET cuts == {r \in zones[z] : r.type = "NS" /\ t \in TmpZone(view, z, r)}
  IN IF z = root \/ NS(zones[z], t) = {} THEN {}
     ELSE cuts \cup UNION {A(zones[z], r.data) : r \in {s \in cuts : EndsAsWritten(s.data, t)}}

(* The pass over one zone z of a view, and over all in their sorted order. *)
FixZone(zones, view, z) ==
  [t \in DOMAIN zones |->
     IF t \in view THEN AddRecords(zones[t], t, Moved(zones, view, z, t)) ELSE zones[t]]
FixView(view) ==
  LET pass[n \in 0 .. Len(NameOrder)] ==
        IF n = 0 THEN name2zone
        ELSE IF NameOrder[n] \in view THEN FixZone(pass[n - 1], view, NameOrder[n])
        ELSE pass[n - 1]
  IN pass[Len(NameOrder)]

(* dnspython refuses a record that is not inside its zone.                 *)
Misplaced(zones) == \E z \in DOMAIN zones : \E r \in zones[z] : ~Under(r.name, z)

FixDelegation(view) ==
  /\ phase = "views" /\ view \in views
  /\ views' = views \ {view}
  /\ IF Misplaced(FixView(view))
       THEN phase' = "keyerror" /\ UNCHANGED name2zone
       ELSE name2zone' = FixView(view) /\ UNCHANGED phase
  /\ UNCHANGED <<input, done, dns_msg, addr2name>>

WriteZones ==
  /\ phase = "views" /\ views = {}
  /\ phase' = "written"
  /\ UNCHANGED <<input, done, dns_msg, name2zone, addr2name, views>>

Next ==
  \/ \E dir \in input : ProcessDir(dir)
  \/ PushMessage
  \/ StartWriting
  \/ \E view \in views : FixDelegation(view)
  \/ WriteZones

Spec == Init /\ [][Next]_vars

-----------------------------------------------------------------------------
(* Properties.                                                             *)

(* The types of the state.  Two parts need the code: a zone holds only     *)
(* records of names inside it, and every zone of an address exists, so     *)
(* that find_zone's error "is not in name2zone" cannot be reached.         *)
TypeOK ==
  /\ input \in Inputs /\ ToSet(done) \subseteq input
  /\ phase \in {"dirs", "push", "views", "written", "exit", "keyerror"}
  /\ phase = "push" <=> (dns_msg # <<>> /\ phase # "exit")
  /\ DOMAIN name2zone \subseteq Names
  /\ \A z \in DOMAIN name2zone : \A r \in name2zone[z] : IsSuffix(z, r.name)
  /\ \A a \in DOMAIN addr2name : addr2name[a] \subseteq DOMAIN name2zone
  /\ views \subseteq {addr2name[a] : a \in DOMAIN addr2name}

(* What the server will answer from, asked at an address for a name: the   *)
(* innermost zone of the address's view.                                   *)
AnsweringZone(a, name) ==
  {z \in addr2name[a] : IsSuffix(z, name) /\ \A y \in addr2name[a] :
                          IsSuffix(y, name) => Len(y) <= Len(z)}

(* The zones an address is known to serve after the first k directories.   *)
KnownAfter(k, a) ==
  {z \in Names : \E j \in 1 .. k :
     LET msgs == ReadDnsMessage(done[j])
     IN \E ns \in Section(msgs, "ans") \cup Section(msgs, "aut"), glue \in Rrs(msgs) :
        /\ ns.type = "NS" /\ ns.name = z
        /\ glue.type = "A" /\ glue.name = ns.data /\ glue.data = a}
  \cup (IF a \in HintAddrs THEN {root, root_servers} ELSE {})

(* Every record that a server was seen to answer is in the zone that the   *)
(* replay answers from at that server's address, whatever directories came *)
(* between, except when that zone became known at the address only through *)
(* a later directory: push_zone does not move what it has placed.  Records *)
(* of the types in Singletons, SOA for one, are exempt: a later one of the *)
(* same name replaces them.                                                *)
ServedUnlessShadowed ==
  phase = "written" =>
    \A k \in DOMAIN done : \A msg \in ToSet(ReadDnsMessage(done[k])) :
      \A r \in Rrs(<<msg>>) : r.type \notin Singletons =>
        \A z \in AnsweringZone(msg.src, r.name) :
          r \in name2zone[z] \/ z \notin KnownAfter(k, msg.src)

(* When fix_delegation passes over a view, in whatever order its zones     *)
(* sort, no zone of it goes on hiding a delegation that an outer zone      *)
(* holds: where a zone delegates another zone of the view, that one gets   *)
(* every delegation of the names inside it, with the addresses of those    *)
(* servers inside it whose names were captured in lower case to that end:  *)
(* line 125 does not lower them, and a server written NS.EBC.NET.TW stays  *)
(* without its addresses.  Excepted are owners that the text of a zone of  *)
(* the view ends though the zone does not contain them.                    *)
Fixed(view) ==
  \A z \in view \ {root}, t \in view :
    NS(name2zone[z], t) # {} =>
      \A r \in name2zone[z] :
        /\ r.type = "NS" /\ IsSuffix(t, r.name) /\ r.name # t
        /\ \A y \in view \ {r.name} :
             EndsWith(r.name, y) => IsSuffix(y, r.name) /\ Len(y) <= Len(t)
        => /\ r \in name2zone'[t]
           /\ IsSuffix(t, r.data) /\ <<r.data, t>> \notin Capitals
                => A(name2zone[z], r.data) \subseteq name2zone'[t]
DelegationFixed ==
  [][\A view \in views : views' = views \ {view} /\ phase' = "views" => Fixed(view)]_vars

(* On well-formed files with records of class IN (others end the program   *)
(* at dns_zone.py:34 and in read_dns_message, which are left out) the      *)
(* construction gives up only for two reasons, in any order of the         *)
(* directories and the views: a directory has an answer of a server whose  *)
(* address it does not show, or in a view the text of a zone's name is the *)
(* end of another name though the zone does not contain it.                *)
AbortsExplained ==
  /\ phase = "exit" =>
       \E k \in DOMAIN done : \E msg \in ToSet(ReadDnsMessage(done[k])) :
         KnownAfter(k, msg.src) = {}
  /\ phase = "keyerror" =>
       \E a \in DOMAIN addr2name : \E z, t \in addr2name[a] : \E r \in name2zone[z] :
         /\ r.type = "NS" /\ t # root
         /\ \E name \in {r.name, r.data} : EndsWith(name, t) /\ ~IsSuffix(t, name)

(* "As a result, the third-level domain delegation of (A) will be broken   *)
(* since we don't have (see) NS of ebc.net.tw in net.tw zone": what        *)
(* fix_delegation is there to prevent.  Every delegation a server was seen *)
(* to give is in the zone that the replay answers from at its address.     *)
DelegationServed ==
  phase = "written" =>
    \A k \in DOMAIN done : \A msg \in ToSet(ReadDnsMessage(done[k])) :
      \A r \in Rrs(<<msg>>) : r.type = "NS" =>
        \A z \in AnsweringZone(msg.src, r.name) : r \in name2zone[z]
=============================================================================
