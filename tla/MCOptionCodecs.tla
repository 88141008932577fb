--------------------------- MODULE MCOptionCodecs ---------------------------
(***************************************************************************)
(* An instance of OptionCodecs for TLC: every field at, just below and     *)
(* just above its limits, and bytes that look like codes and lengths.      *)
(***************************************************************************)
EXTENDS OptionCodecs

\* n bytes b, the last one being 42.
Fill(b, n) == [i \in 1..n |-> IF i = n THEN 42 ELSE b]

Opt(h, type, len, tagger, id) ==
  [h_bit |-> h, tid_type |-> type, tid_len |-> len, tagger_id |-> tagger,
   identifier |-> id]

\* Without a tagger id, as the constructors build them.
Plain ==
  {NewIDpd(Fill(b, n)) : b \in {0, 8}, n \in {1, 2, 4, 8, 9}}
    \cup {NewIDpd(Fill(8, n)) : n \in {0, 254, 255}}
    \cup {NewHDpd(<<n, 0, 0, 0, 0, 0, 0, 0>>) : n \in {0, 42}}
    \cup {NewIDpd(<<0, 0>>), NewIDpd(<<0>>)}

\* With a tagger id.
Tagged ==
  {Opt(h, t, n, {Fill(8, n)}, <<1, 2>>) :
      h \in BOOLEAN, t \in {0, 1, 3, 5}, n \in {1, 31, 32}}
    \cup {Opt(TRUE, 1, 31, {Fill(8, 31)}, Fill(0, n)) : n \in {223, 224}}
    \cup {Opt(FALSE, 1, 2, {<<1>>}, <<7>>), Opt(FALSE, 1, 2, {}, <<7>>),
          Opt(FALSE, 1, 0, {<<>>}, <<7>>), Opt(FALSE, 1, 1, {<<7>>}, <<>>),
          Opt(FALSE, 1, 255, {Fill(8, 255)}, <<7>>)}

MCOptions == Plain \cup Tagged

MCRawIds == {0, 42, 65535, 704643072, 2147483647}

MCPayloads ==
  {<<1>>, Fill(1, 64), Fill(1, 64) \o <<2>>, Fill(1, 65), Fill(1, 63)}

MCFlows == {<<<<10, 0, 0, 1>>, <<239, 0, 0, 1>>>>, <<<<10, 0, 0, 2>>, <<239, 0, 0, 1>>>>}

Vss(on, type, info) == [enabled |-> on, vss_type |-> type, vss_info |-> info]

VssCfgs ==
  {Vss(TRUE, 0, Fill(b, n)) : b \in {0, 152}, n \in {0, 1, 2, 3, 7, 254, 255}}
    \cup {Vss(TRUE, 1, Fill(152, n)) : n \in {6, 7, 8}}
    \cup {Vss(TRUE, 255, <<>>), Vss(TRUE, 255, <<0>>), Vss(TRUE, 2, <<>>)}

Cfg(ifaces, v4, v6) == [interfaces |-> ifaces, dhcpv4 |-> v4, dhcpv6 |-> v6]

MCConfigs ==
  {Cfg(<<"eth0", "eth1">>, v, v) : v \in VssCfgs}
    \cup {Cfg(i, Vss(FALSE, 2, <<>>), Vss(TRUE, 0, <<7>>)) :
            i \in {<<>>, <<"eth0", "">>, <<"eth0">>}}

\* Circuit and remote ids, some with the code of VSS-Control as a value.
MCOtherOpts ==
  {<<>>, <<1, 2, 152, 0>>, <<1, 1, 152, 2, 2, 152, 152>>, <<1, 0>>, <<2, 3, 0, 152, 0>>}

\* An elapsed-time and an interface-id option.
MCOtherV6Opts ==
  {<<>>, <<[code |-> 8, data |-> <<0, 0>>]>>,
   <<[code |-> 18, data |-> <<68>>], [code |-> 8, data |-> <<0, 68>>]>>}
=============================================================================
