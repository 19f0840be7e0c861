------------------------------ MODULE HostsFile ------------------------------
(***************************************************************************)
(* The editor of the system's hosts file (pkg/syshosts).                   *)
(*                                                                         *)
(* A line is an address and its words, as strings.Fields splits it; white  *)
(* space is left out.  A Hosts object keeps each line twice: Raw, which    *)
(* String and Write use, and the Hostnames of an active line, which the    *)
(* editing methods use.  Hostnames are Go slices, so an entry here has an  *)
(* array, an offset and a length, and two entries may share an array.      *)
(*                                                                         *)
(* Every method but Write holds the lock from its first step to its last   *)
(* and is one action.  Write truncates the file before it writes it.       *)
(***************************************************************************)
EXTENDS Integers, SequencesExt

CONSTANTS
    IPs,        \* addresses, as numbers in the order of their bytes
    IPv4,       \* the IPv4 addresses among them
    Names,      \* host names, as numbers in alphabetical order
    Files,      \* what the file may hold when the program starts
    Lines,      \* lines given to InsertRaw
    NameLists,  \* lists of names given to Add and Remove
    Widths,     \* counts given to WrapLinesAtMaxHostsPerLine
    MaxOps      \* bound: the number of calls

VARIABLES
    file,       \* the lines on disk
    hosts,      \* the Hosts object: its entries and their arrays
    writing,    \* Write has truncated the file and not yet written it
    overwrote,  \* history: Add extended a line that shares its array
    calls       \* history: the number of calls

vars == <<file, hosts, writing, overwrote, calls>>

NoIP == 0       \* a first word that is not an address
Hash == 0       \* the word "#", which sorts before every name
Blank == -1     \* a name of white space only
Unused == -2    \* a cell of an array past the slice

ASSUME ConstantsOK ==
    /\ IPs \subseteq Nat \ {NoIP} /\ IPv4 \subseteq IPs
    /\ Names \subseteq Nat \ {Hash} /\ Widths \subseteq Int /\ MaxOps \in Nat

-----------------------------------------------------------------------------
(* Entries, arrays and slices. *)

Active(h) == {i \in DOMAIN h.entries : h.entries[i].active}

Hostnames(h, i) ==
    LET e == h.entries[i]
    IN  IF e.active THEN SubSeq(h.arrays[e.arr], e.off + 1, e.off + e.len)
                    ELSE <<>>

Slice(names, cap) == names \o [k \in 1..(cap - Len(names)) |-> Unused]

Unique(s) ==
    FoldLeft(LAMBDA u, x : IF Contains(u, x) THEN u ELSE Append(u, x), <<>>, s)

formatEntry(ip, names) == [ip |-> ip, words |-> names]

Inactive(line) ==
    [active |-> FALSE, ip |-> NoIP, arr |-> 0, off |-> 0, len |-> 0,
     raw |-> line]

ActiveEntry(ip, arr, off, len, raw) ==
    [active |-> TRUE, ip |-> ip, arr |-> arr, off |-> off, len |-> len,
     raw |-> raw]

(* Forget the arrays nobody uses and number the others by first use. *)
Collected(h) ==
    LET used == SelectSeq(h.entries, LAMBDA e : e.active)
        ids == Unique([k \in DOMAIN used |-> used[k].arr])
        At(a) == CHOOSE k \in DOMAIN ids : ids[k] = a
    IN  [entries |-> [i \in DOMAIN h.entries |->
                        IF h.entries[i].active
                        THEN [h.entries[i] EXCEPT !.arr = At(@)]
                        ELSE h.entries[i]],
         arrays |-> [k \in DOMAIN ids |-> h.arrays[ids[k]]]]

(* The entries i in DOMAIN new get the names new[i].names in a new array   *)
(* of new[i].cap cells and a new Raw; they are dropped when there are none.*)
Replaced(h, new) ==
    LET n == Len(h.entries)
        Fresh(i) == ActiveEntry(h.entries[i].ip, Len(h.arrays) + i, 0,
                                Len(new[i].names),
                                formatEntry(h.entries[i].ip, new[i].names))
        kept == SelectSeq([i \in 1..n |-> i], LAMBDA i :
                    i \in DOMAIN new => new[i].names # <<>>)
    IN  Collected(
          [entries |-> [k \in DOMAIN kept |->
                          IF kept[k] \in DOMAIN new THEN Fresh(kept[k])
                          ELSE h.entries[kept[k]]],
           arrays |-> h.arrays \o [i \in 1..n |->
                          IF i \in DOMAIN new
                          THEN Slice(new[i].names, new[i].cap) ELSE <<>>]])

-----------------------------------------------------------------------------
(* Reading lines. *)

(* parseLine: an address followed by at least one word is active; comments,*)
(* blank and malformed lines are not.  A word "#" is a hostname like any.  *)
parseLine(line, arr) ==
    IF line.ip \in IPs /\ line.words # <<>>
    THEN ActiveEntry(line.ip, arr, 0, Len(line.words), line)
    ELSE Inactive(line)

(* InsertRaw(lines...), and loadAndParse when h is empty. *)
InsertRaw(h, lines) ==
    Collected(
      [entries |-> h.entries \o [k \in DOMAIN lines |->
                        parseLine(lines[k], Len(h.arrays) + k)],
       arrays |-> h.arrays \o [k \in DOMAIN lines |-> lines[k].words]])

loadAndParse(f) == InsertRaw([entries |-> <<>>, arrays |-> <<>>], f)

(* What String puts out. *)
String(h) == [i \in DOMAIN h.entries |-> h.entries[i].raw]

BlankLine == [ip |-> NoIP, words |-> <<>>]

(* The lines of the file Write makes.  It ends the output with a newline   *)
(* unless it ends with one, so a blank last line is lost, and no line at   *)
(* all becomes a blank one. *)
Output(h) ==
    LET s == String(h)
    IN  IF s = <<>> THEN <<BlankLine>>
        ELSE IF Len(s) > 1 /\ Last(s) = BlankLine THEN Front(s) ELSE s

Has(h, ip, x) ==
    \E i \in Active(h) : h.entries[i].ip = ip /\ Contains(Hostnames(h, i), x)

HasHostname(h, x) == \E i \in Active(h) : Contains(Hostnames(h, i), x)

HasIP(h, ip) == \E i \in Active(h) : h.entries[i].ip = ip
-----------------------------------------------------------------------------
(* Editing. *)

(* Mutant of AppendName: in place, one cell too low. *)
MutAppendName(h, i, x) ==
    LET e == h.entries[i]
    IN  [entries |-> h.entries,
         arrays |-> [h.arrays EXCEPT ![e.arr][e.off + e.len] = x]]

(* append of one name to the slice of entry i: in place when the array has *)
(* a cell after the slice, otherwise in a new array of twice the capacity. *)
AppendName(h, i, x) ==
    LET e == h.entries[i]
        cap == Len(h.arrays[e.arr]) - e.off
    IN  IF e.len < cap
        THEN [entries |-> [h.entries EXCEPT ![i].len = @ + 1],
              arrays |-> [h.arrays EXCEPT ![e.arr][e.off + e.len + 1] = x]]
        ELSE [entries |-> [h.entries EXCEPT
                             ![i].arr = Len(h.arrays) + 1, ![i].off = 0,
                             ![i].len = @ + 1],
              arrays |-> Append(h.arrays,
                                Slice(Append(Hostnames(h, i), x), 2 * cap))]

(* Mutant of Add: Raw is not formatted again. *)
MutAdd(h, ip, list) ==
    LET lines == {i \in Active(h) : h.entries[i].ip = ip}
        g == FoldLeft(LAMBDA k, x :
                IF x = Blank \/ Contains(Hostnames(k, Min(lines)), x) THEN k
                ELSE AppendName(k, Min(lines), x), h, list)
    IN  IF lines = {} THEN h ELSE Collected(g)

(* Add: the first active entry of the address gets the names it lacks, or  *)
(* a new entry gets them all. *)
Add(h, ip, list) ==
    LET valid == SelectSeq(list, LAMBDA x : x # Blank)
        lines == {i \in Active(h) : h.entries[i].ip = ip}
        i == Min(lines)
        g == FoldLeft(LAMBDA k, x : IF Contains(Hostnames(k, i), x) THEN k
                                    ELSE AppendName(k, i, x), h, valid)
    IN  IF lines = {}
        THEN Collected(
               [entries |-> Append(h.entries,
                   ActiveEntry(ip, Len(h.arrays) + 1, 0, Len(valid),
                               formatEntry(ip, valid))),
                arrays |-> Append(h.arrays, Slice(valid, Len(list)))])
        ELSE IF g = h THEN h
        ELSE Collected([g EXCEPT !.entries[i].raw =
                          formatEntry(ip, Hostnames(g, i))])

(* The entries of lines without the names in gone. *)
Without(h, lines, gone) ==
    [i \in lines |->
        [names |-> SelectSeq(Hostnames(h, i), LAMBDA x : x \notin gone),
         cap |-> h.entries[i].len]]

(* Mutant of RemoveFrom: the address is not compared. *)
MutRemoveFrom(h, ip, gone) ==
    Replaced(h, Without(h, Active(h), gone))

(* Remove: the lines of the address that lose a name.  The new entries are *)
(* kept only when a line lost all its names (entryRemoved). *)
RemoveFrom(h, ip, gone) ==
    LET new == Without(h, {i \in Active(h) : h.entries[i].ip = ip
                            /\ ToSet(Hostnames(h, i)) \cap gone # {}}, gone)
    IN  IF \E i \in DOMAIN new : new[i].names = <<>> THEN Replaced(h, new)
        ELSE h

RemoveByHostname(h, x) ==
    Replaced(h, Without(h, {i \in Active(h) : Contains(Hostnames(h, i), x)},
                        {x}))

RemoveByIP(h, ip) ==
    Replaced(h, [i \in {j \in Active(h) : h.entries[j].ip = ip} |->
                    [names |-> <<>>, cap |-> 0]])

(* Mutant of RemoveDuplicateHosts: the last line keeps the name. *)
MutRemoveDuplicateHosts(h) ==
    LET Later(i) == UNION {ToSet(Hostnames(h, j)) :
                              j \in {k \in Active(h) : k > i}}
    IN  Replaced(h, [i \in Active(h) |-> Without(h, {i}, Later(i))[i]])

(* RemoveDuplicateHosts: first within each line, then across lines, where  *)
(* the first line keeps the name. *)
RemoveDuplicateHosts(h) ==
    LET within == {i \in Active(h) : ~IsInjective(Hostnames(h, i))}
        g == Replaced(h, [i \in within |->
                [names |-> Unique(Hostnames(h, i)), cap |-> h.entries[i].len]])
        Earlier(i) == UNION {ToSet(Hostnames(g, j)) :
                                j \in {k \in Active(g) : k < i}}
        new == [i \in Active(g) |-> Without(g, {i}, Earlier(i))[i]]
    IN  Replaced(g, Restrict(new, {i \in Active(g) :
                        new[i].names = <<>> \/ new[i].names # Hostnames(g, i)}))

(* Mutant of CombineDuplicateIPs: the later entries are dropped. *)
MutCombineDuplicateIPs(h) ==
    Replaced(h, [i \in {j \in Active(h) : \E k \in Active(h) :
                           k < j /\ h.entries[k].ip = h.entries[j].ip} |->
                    [names |-> <<>>, cap |-> 0]])

(* CombineDuplicateIPs: the first entry of an address gets the names of    *)
(* all of them; nothing happens when no address has two entries. *)
CombineDuplicateIPs(h) ==
    LET Same(i) == SelectSeq([j \in DOMAIN h.entries |-> j], LAMBDA j :
                    j \in Active(h) /\ h.entries[j].ip = h.entries[i].ip)
        All(i) == FlattenSeq([k \in DOMAIN Same(i) |->
                                Hostnames(h, Same(i)[k])])
        new == [i \in Active(h) |->
                  IF Same(i)[1] = i
                  THEN [names |-> Unique(All(i)), cap |-> Len(All(i))]
                  ELSE [names |-> <<>>, cap |-> 0]]
    IN  IF \E i \in Active(h) : Same(i)[1] # i THEN Replaced(h, new) ELSE h

removeEmptyActiveEntries(h) ==
    Replaced(h, [i \in {j \in Active(h) : h.entries[j].len = 0} |->
                    [names |-> <<>>, cap |-> 0]])

(* Mutant of Clean: the lines of an address are not combined. *)
MutClean(h) == removeEmptyActiveEntries(RemoveDuplicateHosts(h))

Clean(h) ==
    removeEmptyActiveEntries(RemoveDuplicateHosts(CombineDuplicateIPs(h)))

(* WrapLinesAtMaxHostsPerLine: the chunks of a line are slices of its array.*)
WrapLines(h, count) ==
    LET Least(a, b) == IF a < b THEN a ELSE b
        Chunk(i, k) ==
            LET e == h.entries[i]
                from == count * (k - 1)
                len == Least(count, e.len - from)
            IN  ActiveEntry(e.ip, e.arr, e.off + from, len,
                    formatEntry(e.ip, SubSeq(Hostnames(h, i), from + 1,
                                             from + len)))
        Chunks(i) ==
            IF i \in Active(h) /\ h.entries[i].len > count
            THEN [k \in 1..((h.entries[i].len + count - 1) \div count) |->
                    Chunk(i, k)]
            ELSE <<h.entries[i]>>
    IN  IF count <= 0 THEN h
        ELSE [h EXCEPT !.entries =
                FlattenSeq([i \in DOMAIN h.entries |-> Chunks(i)])]

(* SortHosts sorts the slices in place, one entry after the other. *)
SortEntry(h, i) ==
    LET e == h.entries[i]
        sorted == SortSeq(Hostnames(h, i), LAMBDA x, y : x < y)
    IN  IF ~e.active \/ sorted = Hostnames(h, i) THEN h
        ELSE [entries |-> [h.entries EXCEPT ![i].raw =
                             formatEntry(e.ip, sorted)],
              arrays |-> [h.arrays EXCEPT ![e.arr] = [k \in DOMAIN @ |->
                             IF k \in e.off + 1 .. e.off + e.len
                             THEN sorted[k - e.off] ELSE @[k]]]]

SortHosts(h) ==
    FoldLeft(SortEntry, h, [i \in DOMAIN h.entries |-> i])

(* compareIPStrings(a, b) < 0 *)
LessIP(a, b) ==
    \/ a \in IPv4 /\ b \notin IPv4
    \/ (a \in IPv4 <=> b \in IPv4) /\ a < b

(* Mutant of SortIPs: the inactive lines are left out. *)
MutSortIPs(h) ==
    Collected([h EXCEPT !.entries = SelectSeq(@, LAMBDA e : e.active)])

(* SortIPs: inactive lines first, then the active ones, stable by address. *)
SortIPs(h) ==
    LET byIP == SetToSortSeq(IPs, LessIP)
        Of(ip) == SelectSeq(h.entries, LAMBDA e : e.active /\ e.ip = ip)
    IN  Collected([h EXCEPT !.entries =
            SelectSeq(h.entries, LAMBDA e : ~e.active)
              \o FlattenSeq([k \in DOMAIN byIP |-> Of(byIP[k])])])

-----------------------------------------------------------------------------
(* The methods as actions. *)

(* The line that Add extends for the address shares its array with another.*)
Shares(h, ip) ==
    LET i == Min({j \in Active(h) : h.entries[j].ip = ip})
    IN  /\ HasIP(h, ip)
        /\ \E j \in Active(h) \ {i} : h.entries[j].arr = h.entries[i].arr

Init ==
    /\ file \in Files /\ hosts = loadAndParse(file)
    /\ writing = FALSE /\ overwrote = FALSE /\ calls = 0

(* A method that edits the object: it waits for the lock Write holds. *)
Edit(h) ==
    /\ ~writing /\ calls < MaxOps
    /\ hosts' = h /\ calls' = calls + 1
    /\ UNCHANGED <<file, writing>>

EditOnly(h) == Edit(h) /\ UNCHANGED overwrote

CallAdd(ip, list) ==
    /\ \E x \in ToSet(list) : x # Blank
    /\ Edit(Add(hosts, ip, list))
    /\ overwrote' = (overwrote \/ (Shares(hosts, ip) /\ hosts' # hosts))

CallRemove(ip, list) ==
    LET gone == ToSet(list) \ {Blank}
    IN  /\ \E x \in gone : Has(hosts, ip, x)
        /\ EditOnly(RemoveFrom(hosts, ip, gone))

CallRemoveByHostname(x) ==
    HasHostname(hosts, x) /\ EditOnly(RemoveByHostname(hosts, x))

CallRemoveByIP(ip) == HasIP(hosts, ip) /\ EditOnly(RemoveByIP(hosts, ip))

CallInsertRaw(line) == EditOnly(InsertRaw(hosts, <<line>>))

CallRemoveDuplicateHosts == EditOnly(RemoveDuplicateHosts(hosts))

CallCombineDuplicateIPs == EditOnly(CombineDuplicateIPs(hosts))

CallClean == EditOnly(Clean(hosts))

CallWrapLines(count) == EditOnly(WrapLines(hosts, count))

CallSortHosts == EditOnly(SortHosts(hosts))

CallSortIPs == EditOnly(SortIPs(hosts))

(* os.WriteFile opens the file with O_TRUNC, then writes. *)
WriteStart ==
    /\ ~writing /\ calls < MaxOps
    /\ writing' = TRUE /\ file' = <<>> /\ calls' = calls + 1
    /\ UNCHANGED <<hosts, overwrote>>

WriteDone ==
    /\ writing
    /\ writing' = FALSE /\ file' = Output(hosts)
    /\ UNCHANGED <<hosts, overwrote, calls>>

(* The disk is full: some of the lines are there, and Write returns err. *)
WriteFails ==
    /\ writing
    /\ writing' = FALSE
    /\ \E n \in 0..Len(Output(hosts)) - 1 :
            file' = SubSeq(Output(hosts), 1, n)
    /\ UNCHANGED <<hosts, overwrote, calls>>

Load ==
    /\ hosts' = loadAndParse(file) /\ overwrote' = FALSE
    /\ calls' = calls + 1 /\ UNCHANGED file

Reload == ~writing /\ calls < MaxOps /\ Load /\ UNCHANGED writing

(* The process ends, at any point, and a new one calls NewHosts. *)
Restart == calls < MaxOps /\ Load /\ writing' = FALSE

Next ==
    \/ \E ip \in IPs, list \in NameLists :
            CallAdd(ip, list) \/ CallRemove(ip, list)
    \/ \E x \in Names : CallRemoveByHostname(x)
    \/ \E ip \in IPs : CallRemoveByIP(ip)
    \/ \E line \in Lines : CallInsertRaw(line)
    \/ CallRemoveDuplicateHosts \/ CallCombineDuplicateIPs \/ CallClean
    \/ \E count \in Widths : CallWrapLines(count)
    \/ CallSortHosts \/ CallSortIPs
    \/ WriteStart \/ WriteDone \/ WriteFails \/ Reload \/ Restart

Spec == Init /\ [][Next]_vars

-----------------------------------------------------------------------------
(* Properties. *)

Pairs(h) ==
    UNION {{h.entries[i].ip} \X ToSet(Hostnames(h, i)) : i \in Active(h)}

Comments(h) == SelectSeq(String(h), LAMBDA l : ~parseLine(l, 1).active)

Bindings(h) ==
    LET on == SelectSeq(h.entries, LAMBDA e : e.active)
        at == SelectSeq([i \in DOMAIN h.entries |-> i],
                        LAMBDA i : i \in Active(h))
    IN  [k \in DOMAIN on |-> [ip |-> on[k].ip, names |-> Hostnames(h, at[k])]]

(* The address the resolver finds for a name: the first line that has it   *)
(* before a comment. *)
Resolved(h, x) ==
    LET Said(w) == IF Contains(w, Hash)
                   THEN SubSeq(w, 1, SelectInSeq(w, LAMBDA y : y = Hash) - 1)
                   ELSE w
        at == {i \in DOMAIN h.entries : parseLine(h.entries[i].raw, 1).active
                                  /\ Contains(Said(h.entries[i].raw.words), x)}
    IN  IF at = {} THEN NoIP ELSE h.entries[Min(at)].raw.ip

(* What the methods answer from Hostnames is what Write saves from Raw:    *)
(* after any calls, writing the file and reading it again gives the same   *)
(* bindings in the same order and, but for one blank line at the end, the  *)
(* same comments.  It needs every method to format Raw again, and fails    *)
(* only after Add extended a line that shares its array (AddOnlyAdds). *)
SavedIsLoaded ==
    LET again == loadAndParse(Output(hosts))
    IN  ~overwrote =>
            /\ Bindings(again) = Bindings(hosts)
            /\ Comments(again) \in {Comments(hosts), <<BlankLine>>}
                 \/ Comments(hosts) = Append(Comments(again), BlankLine)

(* Add binds the names it was given and changes no other binding, however  *)
(* the object was edited before, unless the line it extends shares its     *)
(* array with another: WrapLinesAtMaxHostsPerLine leaves such lines, and   *)
(* append then writes into the next one. *)
AddOnlyAdds ==
    [][\A ip \in IPs, list \in NameLists : CallAdd(ip, list) =>
        \/ Shares(hosts, ip)
        \/ Pairs(hosts') = Pairs(hosts)
                             \cup ({ip} \X (ToSet(list) \ {Blank}))]_vars

(* Remove takes the named hosts from the address and nothing else, or it   *)
(* does nothing: that, only when every line of the address keeps a name,   *)
(* because the result is stored only when a line disappears. *)
RemoveExact ==
    [][\A ip \in IPs, list \in NameLists : CallRemove(ip, list) =>
        \/ Pairs(hosts') = Pairs(hosts) \ ({ip} \X ToSet(list))
        \/ /\ hosts' = hosts
           /\ \A i \in Active(hosts) : hosts.entries[i].ip = ip =>
                 ~(ToSet(Hostnames(hosts, i)) \subseteq ToSet(list))]_vars

(* Clean leaves every address on one line and every name on one line, and  *)
(* loses no name, whatever calls came before. *)
CleanNormal ==
    [][CallClean =>
        /\ \A i, j \in Active(hosts') : i # j =>
              /\ hosts'.entries[i].ip # hosts'.entries[j].ip
              /\ ToSet(Hostnames(hosts', i)) \cap ToSet(Hostnames(hosts', j))
                    = {}
        /\ \A i \in Active(hosts') : IsInjective(Hostnames(hosts', i))
        /\ {p[2] : p \in Pairs(hosts')} = {p[2] : p \in Pairs(hosts)}]_vars

(* Merging, wrapping and sorting lines keep every pair of address and name.*)
PairsKept ==
    [][CallCombineDuplicateIPs \/ CallSortHosts \/ CallSortIPs
          \/ (\E count \in Widths : CallWrapLines(count))
        => overwrote \/ Pairs(hosts') = Pairs(hosts)]_vars

(* Removing duplicates, wrapping lines and sorting the names of a line do  *)
(* not change the address any name resolves to, as long as no line has a   *)
(* comment after its names, which parseLine takes for names. *)
ResolutionKept ==
    [][CallRemoveDuplicateHosts \/ CallSortHosts
          \/ (\E count \in Widths : CallWrapLines(count))
        => \/ overwrote \/ HasHostname(hosts, Hash)
           \/ \A x \in Names : Resolved(hosts', x) = Resolved(hosts, x)]_vars

(* No method loses, changes or reorders a comment or a blank line. *)
CommentsKept ==
    [][Reload \/ Restart \/ IsPrefix(Comments(hosts), Comments(hosts'))]_vars

=============================================================================
