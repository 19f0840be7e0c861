----------------------------- MODULE MCHostsFile -----------------------------
(* Instances of HostsFile for TLC: two IPv4 addresses and an IPv6 address  *)
(* whose bytes come first, three names. *)
EXTENDS HostsFile

MCIPs == {1, 2, 3}
MCIPv4 == {2, 3}
MCNames == {1, 2, 3}

Line(ip, words) == [ip |-> ip, words |-> words]
Comment == Line(NoIP, <<Hash, 1>>)

MCFiles ==
    {<<Comment, Line(3, <<2, 1>>), Line(2, <<1, 2>>), Line(3, <<3, 3>>)>>,
     <<Line(2, <<3, 2, 1>>), Comment, Line(1, <<1>>), BlankLine>>,
     <<Line(3, <<2, Hash, 1>>), Line(3, <<3>>), BlankLine>>}

MCLines == {Line(2, <<1, 3>>), Line(1, <<>>)}

MCNameLists == {<<1>>, <<3, 1>>, <<Blank, 2>>}

MCWidths == {0, 1, 2}

=============================================================================
