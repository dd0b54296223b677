------------------------------- MODULE MCZone -------------------------------
(* Instances of ZoneConstructor for TLC.                                   *)
EXTENDS ZoneConstructor

R(n, t, d) == [name |-> n, type |-> t, data |-> d]
Reply(src, ans, aut, add) == [qr |-> TRUE, src |-> src, ans |-> ans, aut |-> aut, add |-> add]

tw == <<"tw">>                        netTw == <<"net", "tw">>
ebc == <<"ebc">> \o netTw             foo == <<"foo">> \o netTw
com == <<"com">>                      example == <<"example", "com">>
le == <<"le", "com">>                 org == <<"org">>
h == <<"h", "dns">> \o tw             i == <<"i", "dns">> \o tw
nsEbc == <<"ns">> \o ebc              nsFoo == <<"ns">> \o foo
nsCom == <<"a", "gtld", "net">>       nsCom2 == <<"b", "gtld", "net">>
nsRoot == <<"a">> \o root_servers     nsEx == <<"ns">> \o example

x == <<"x">> \o netTw                 k == <<"k", "dns">> \o tw
ax == <<"a">> \o x
MCRootHint == {R(root, "NS", nsRoot), R(nsRoot, "A", "ipRoot")}
ample == <<"ample", "com">>           a == <<"a">> \o ample
MCNameOrder == <<root, a, ax, ample, <<"b">> \o a, com, ebc, example, foo, le, netTw, org, root_servers, tw, x>>
\* ebc has a server that the answers call NS2.EBC.NET.TW
ns2Ebc == <<"ns2">> \o ebc
MCCapitals == {<<ns2Ebc, z>> : z \in {tw, netTw, ebc, ns2Ebc}}
MCPartial == {<<"example", "le">>}

\* tw has two servers, h and i
ToTw == Reply("ipRoot", {}, {R(tw, "NS", h), R(tw, "NS", i)}, {R(h, "A", "ip1"), R(i, "A", "ip2")})
ToCom == Reply("ipRoot", {}, {R(com, "NS", nsCom), R(com, "NS", nsCom2)},
               {R(nsCom, "A", "ipc"), R(nsCom2, "A", "ipc2")})

\* hierarchy (A) of the comment: tw delegates ebc.net.tw
DirEbc == <<[ToTw EXCEPT !.qr = FALSE], ToTw,
            Reply("ip1", {}, {R(ebc, "NS", nsEbc), R(ebc, "NS", ns2Ebc)},
                  {R(nsEbc, "A", "ip3"), R(ns2Ebc, "A", "ip6")}),
            Reply("ip3", {R(ebc, "A", "x"), R(ebc, "TYPE0", "x")}, {R(ebc, "NS", nsEbc)}, {}),
            Reply("ipRec", {R(ebc, "A", "x")}, {}, {})>>
\* hierarchy (B), for another name: net.tw is at h too, which gives its NS
DirFoo == <<ToTw, Reply("ip1", {}, {R(netTw, "NS", h)}, {R(h, "A", "ip1")}),
            Reply("ip1", {}, {R(foo, "NS", nsFoo)}, {R(nsFoo, "A", "ip4")}),
            Reply("ip4", {R(foo, "A", "y")}, {}, {})>>
\* the same, with the NS of net.tw given by i, which serves tw only
DirBar == <<ToTw, Reply("ip2", {}, {R(netTw, "NS", h)}, {R(h, "A", "ip1")}),
            Reply("ip1", {R(<<"bar">> \o netTw, "A", "z")}, {}, {})>>
\* a name below net.tw that the server of tw denies by itself
DirBaz == <<ToTw, Reply("ip1", {R(<<"baz">> \o netTw, "A", "b")}, {R(netTw, "SOA", "real")}, {})>>
DirExample == <<ToCom, Reply("ipc", {}, {R(example, "NS", nsEx)}, {R(nsEx, "A", "ip5")}),
                Reply("ip5", {R(example, "A", "e")}, {}, {})>>
\* le.com is at a server of com
DirLe == <<ToCom, Reply("ipc2", {}, {R(le, "NS", nsCom)}, {R(nsCom, "A", "ipc")}),
           Reply("ipc", {R(le, "A", "l")}, {}, {})>>
\* the server of org is not shown
DirOrg == <<Reply("ipRoot", {}, {R(org, "NS", <<"ns">> \o org)}, {}),
            Reply("ip9", {R(org, "A", "o")}, {}, {})>>

\* three levels: x.net.tw is at another server of net.tw
DirDeep == <<ToTw, Reply("ip2", {}, {R(netTw, "NS", h), R(netTw, "NS", k)}, {R(h, "A", "ip1"), R(k, "A", "ip7")}),
             Reply("ip1", {}, {R(x, "NS", k)}, {R(k, "A", "ip7")}),
             Reply("ip7", {R(x, "A", "x")}, {}, {})>>
DirAx == <<ToTw, Reply("ip2", {}, {R(ax, "NS", nsEx)}, {R(nsEx, "A", "ip5")})>>

\* ample.com and a.ample.com, which sort before com, come to a server of com
\* one after the other
DirAmple == <<ToCom, Reply("ipc2", {}, {R(ample, "NS", nsCom)}, {R(nsCom, "A", "ipc")}),
              Reply("ipc", {}, {R(<<"b">> \o a, "NS", nsEx)}, {R(nsEx, "A", "ip5")})>>
DirA == <<ToCom, Reply("ipc", {}, {R(a, "NS", nsEx)}, {R(nsEx, "A", "ip5")})>>
DirA2 == <<ToCom, Reply("ipc2", {}, {R(a, "NS", nsCom)}, {R(nsCom, "A", "ipc")})>>

Dirs == {DirDeep, DirAx, DirEbc, DirFoo, DirBar, DirBaz, DirExample, DirLe, DirOrg}
MCInputs == {in \in SUBSET Dirs : Cardinality(in) <= 3} \cup {{DirAmple, DirA, DirA2}}
\* the two hierarchies of the comment at fix_delegation
CommentInputs == {{DirEbc, DirFoo}}
=============================================================================
