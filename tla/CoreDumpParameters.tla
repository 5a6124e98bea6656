--------------------------- MODULE CoreDumpParameters ---------------------------
(***************************************************************************)
(* The configuration parameters of the plug-ins of a core dump session: a  *)
(* client asks how many there are and how large the largest is, fetches    *)
(* copies into buffers of that size, and sets one by the place its plug-in *)
(* had; the server keeps one list of pointers to the parameters of all     *)
(* plug-ins, and saves them by the places they had when it was made.       *)
(*                                                                         *)
(* A text is its length: texts of one length are not told apart.  A writer *)
(* has one text, the path of its file; a formatter has one switch, whose   *)
(* text is "True" or "False".  The server's own parameters are in          *)
(* CoreDumpSession and those kept in flash in FlashDataSource.             *)
(***************************************************************************)
EXTENDS Integers, Sequences, SequencesExt

CONSTANTS
  Texts,       \* lengths of the texts clients set
  Missing,     \* those that name a directory that is not there
  MaxText,     \* KCDSMaxConfigParamStr
  Fixed,       \* bytes of a parameter in a stream, but for its text
  MaxSize,     \* a parameter is refused that is not below
  MaxPlugs, MaxSets \* bounds: plug-ins loaded, texts set

ParametersAssumption ==
  /\ Texts \subseteq Nat /\ {Fixed, MaxText, MaxSize, MaxPlugs, MaxSets} \subseteq Nat \ {0}

VARIABLES
  plugs,     \* iFormatterPlugins and iWriterPlugins, each with its parameter
  list,      \* iTotalConfigList, as sources and numbers
  largest,   \* iMaxConfigParamSize of the session
  client,    \* iMaxConfigParamSize of the client, and its copy of a parameter
  set,       \* whether the last call set what it was to set
  fetch,     \* what came of the last fetch
  file,      \* how many sections of each kind the configuration file has
  told,      \* nothing has been set or loaded since the client asked for the size
  unloaded,  \* a plug-in, since the copy was made
  shrunk,    \* a text has given way to a shorter one
  loads, sets

vars == <<plugs, list, largest, client, set, fetch, file, told, unloaded, shrunk, loads, sets>>

Sources == {"formatter", "writer"}
NoCopy == [source |-> "writer", instance |-> -1, id |-> 0]
NotSet == [landed |-> TRUE, why |-> {}]
Huge == 1000000   \* a negative size as an unsigned number

True == 4
False == 5
Default(source, id) ==
  [id |-> id, text |-> IF source = "writer" THEN 0 ELSE True, size |-> 0, instance |-> 0]

Init ==
  /\ plugs = [s \in Sources |-> <<>>] /\ list = <<>> /\ largest = 0
  /\ client = [largest |-> 0, copy |-> NoCopy] /\ set = NotSet /\ fetch = "none"
  /\ file = [s \in Sources |-> 0] /\ told = FALSE /\ unloaded = FALSE /\ shrunk = FALSE /\ loads = 0 /\ sets = 0

-------------------------------------------------------------------------------
(* COptionConfig.                                                          *)

InStream(text) == Fixed + (IF text = 0 THEN 0 ELSE 1 + text)
(* Until it has been in a stream the size is what it can take at the most. *)
Estimate(text) == Fixed + (IF text = 0 THEN 0 ELSE 2 + 2 * text)
SizeOf(p) == IF p.size # 0 THEN p.size ELSE Estimate(p.text)

(* A text that leaves no room for a zero is cut.                           *)
Constructed(text) == IF text >= MaxText THEN MaxText - 1 ELSE text

NewSize(p, text) == SizeOf(p) + 2 * text - 2 * p.text
Refuses(p, text) == text > MaxText \/ NewSize(p, text) >= MaxSize
(* The size loses two bytes for each letter that had one in the stream.    *)
WithText(p, text) == [p EXCEPT !.text = Constructed(text), !.size = NewSize(p, text)]

-------------------------------------------------------------------------------
(* The list.                                                               *)

(* Mutant: the plug-ins keep the places they had.                          *)
InPlaceAsBefore(ps) == ps

InPlace(ps) ==
  [s \in Sources |-> [i \in DOMAIN ps[s] |-> [ps[s][i] EXCEPT !.instance = i - 1]]]

ListOf(ps) ==
  [i \in DOMAIN ps["formatter"] |-> [source |-> "formatter", id |-> ps["formatter"][i].id]] \o
  [i \in DOMAIN ps["writer"] |-> [source |-> "writer", id |-> ps["writer"][i].id]]

Unsigned(n) == IF n < 0 THEN Huge ELSE n
Sizes(ps) == {Unsigned(SizeOf(p)) : p \in ToSet(ps["formatter"]) \cup ToSet(ps["writer"])}
Largest(S) == CHOOSE n \in S : \A m \in S : m <= n

(* UpdateConfigParametersL; the size never gets smaller.                   *)
Update(ps) ==
  /\ plugs' = InPlace(ps) /\ list' = ListOf(ps)
  /\ largest' = Largest(Sizes(ps) \cup {largest})

-------------------------------------------------------------------------------
(* Requests of the client.                                                 *)

Load(source) ==
  /\ loads < MaxPlugs /\ loads' = loads + 1
  /\ Update([plugs EXCEPT ![source] = Append(@, Default(source, loads + 1))])
  /\ told' = FALSE /\ set' = NotSet /\ fetch' = "none"
  /\ UNCHANGED <<client, file, unloaded, shrunk, sets>>

Unload(source, i) ==
  /\ i \in DOMAIN plugs[source]
  /\ Update([plugs EXCEPT ![source] = RemoveAt(@, i)])
  /\ unloaded' = (client.copy # NoCopy) /\ set' = NotSet /\ fetch' = "none"
  /\ UNCHANGED <<client, file, told, shrunk, loads, sets>>

GetNumber ==
  /\ Update(plugs) /\ client' = [client EXCEPT !.largest = largest']
  /\ told' = TRUE /\ set' = NotSet /\ fetch' = "none"
  /\ UNCHANGED <<file, unloaded, shrunk, loads, sets>>

Listed(ps, entry) == CHOOSE p \in ToSet(ps[entry.source]) : p.id = entry.id
Change(ps, source, id, p) ==
  [ps EXCEPT ![source] = [i \in DOMAIN @ |-> IF @[i].id = id THEN p ELSE @[i]]]

Aligned(n) == 4 * ((n + 3) \div 4)

(* What goes into a stream has its true size from then on.                 *)
Externalized(p) == [p EXCEPT !.size = InStream(p.text)]

(* A client that has been told of a size below zero cannot even allocate.  *)
GetParameter(i) ==
  /\ i \in DOMAIN list /\ set' = NotSet
  /\ LET p == Listed(plugs, list[i])
         source == list[i].source
     IN  IF client.largest = Huge
         THEN fetch' = "panic" /\ UNCHANGED <<plugs, client, unloaded>>
         ELSE /\ plugs' = Change(plugs, source, p.id, Externalized(p))
              /\ IF InStream(p.text) > Aligned(client.largest)
                 THEN fetch' = "overflow" /\ UNCHANGED <<client, unloaded>>
                 ELSE /\ fetch' = "fetched" /\ unloaded' = FALSE
                      /\ client' = [client EXCEPT !.copy =
                           [source |-> source, instance |-> p.instance, id |-> p.id]]
  /\ UNCHANGED <<list, largest, file, told, shrunk, loads, sets>>

(* A place beyond the end is passed over without an error; the path of a   *)
(* file is in force before its directory is looked for.                    *)
Put(source, i, text) ==
  IF i \notin DOMAIN plugs[source]
  THEN UNCHANGED <<plugs, told, shrunk>>
  ELSE LET p == plugs[source][i] IN
       IF Refuses(p, text) THEN UNCHANGED <<plugs, told, shrunk>>
       ELSE /\ told' = FALSE
            /\ plugs' = Change(plugs, source, p.id, WithText(p, text))
            /\ shrunk' = (shrunk \/ Constructed(text) < p.text)

Settable(source) == IF source = "writer" THEN Texts ELSE {True, False}

(* Mutant: by the place in the list.                                       *)
PlaceInList(copy) ==
  CHOOSE i \in 1..Len(list) + 1 : i <= Len(list) => list[i].id = copy.id
Place(copy) == copy.instance + 1

TextOf(ps, source, id) ==
  LET S == {p \in ToSet(ps[source]) : p.id = id}
  IN  IF S = {} THEN -1 ELSE (CHOOSE p \in S : TRUE).text

SetParameter(text) ==
  LET copy == client.copy
      i == Place(copy)
      there == i \in DOMAIN plugs[copy.source]
      refused == there /\ Refuses(plugs[copy.source][i], text)
      missing == there /\ copy.source = "writer" /\ text \in Missing
  IN  /\ sets < MaxSets /\ sets' = sets + 1
      /\ copy # NoCopy /\ text \in Settable(copy.source)
      /\ Put(copy.source, i, text)
      /\ set' = [landed |-> TextOf(plugs', copy.source, copy.id) =
                   (IF refused \/ missing THEN TextOf(plugs, copy.source, copy.id) ELSE text),
                 why |-> (IF unloaded THEN {"unloaded"} ELSE {}) \cup
                         (IF missing THEN {"missing"} ELSE {}) \cup
                         (IF text = MaxText THEN {"cut"} ELSE {})]
      /\ fetch' = "none"
      /\ UNCHANGED <<list, largest, client, file, unloaded, loads>>

(* Each plug-in has a section, with what the list holds for its place.     *)
Section(source, i) ==
  {Listed(plugs, list[j]) : j \in
     {k \in DOMAIN list : list[k].source = source /\ Listed(plugs, list[k]).instance = i - 1}}
SaveConfig ==
  /\ file' = [s \in Sources |-> Len(plugs[s])]
  /\ set' = NotSet /\ fetch' = "none"
  /\ UNCHANGED <<plugs, list, largest, client, told, unloaded, shrunk, loads, sets>>

(* The plug-ins of the file are made anew.  Their parameters are looked for*)
(* in a section without a number, which there is not: they stay default.   *)
Fresh(source, from) == [i \in 1..file[source] |-> Default(source, from + i)]
LoadConfig ==
  LET n == file["formatter"] + file["writer"]
  IN  /\ n > 0 /\ loads + n <= MaxPlugs /\ loads' = loads + n
      /\ Update([plugs EXCEPT !["formatter"] = @ \o Fresh("formatter", loads),
                              !["writer"] = @ \o Fresh("writer", loads + file["formatter"])])
      /\ told' = FALSE /\ set' = NotSet /\ fetch' = "none"
      /\ UNCHANGED <<client, file, unloaded, shrunk, sets>>

Next ==
  \/ \E s \in Sources : Load(s)
  \/ \E s \in Sources, i \in 1..MaxPlugs : Unload(s, i)
  \/ GetNumber \/ SaveConfig \/ LoadConfig
  \/ \E i \in 1..MaxPlugs : GetParameter(i)
  \/ \E text \in Texts \cup {True, False} : SetParameter(text)

Spec == Init /\ [][Next]_vars

-------------------------------------------------------------------------------
(* What a client sets is what the parameter it was shown has then, or it is*)
(* told and the parameter is as it was; the limits are a plug-in unloaded  *)
(* since it was shown, a path whose directory is missing and a text as long*)
(* as the longest one.                                                     *)
Lands == set.landed \/ set.why # {}

(* Every parameter fits the size the client was told, unless one has been  *)
(* set to a shorter text, or anything set or loaded since.                 *)
Fits == fetch \in {"overflow", "panic"} => shrunk \/ ~told

(* The section of a plug-in in the file has that plug-in's parameters.     *)
Sections == \A s \in Sources : \A i \in DOMAIN plugs[s] : Section(s, i) = {plugs[s][i]}

Parameters == Lands /\ Fits /\ Sections
===============================================================================
