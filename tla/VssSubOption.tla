---------------------------- MODULE VssSubOption ----------------------------
(***************************************************************************)
(* Virtual subnet selection: the checks that RelayAgent::new makes of a    *)
(* configuration (src/src/config.rs), the sub-options 151 and 152 of       *)
(* Option 82 byte for byte (src/src/dhcp/v4/vss.rs) and option 68 of       *)
(* DHCPv6 (src/src/dhcp/v6/vss.rs).                                        *)
(***************************************************************************)
EXTENDS Naturals, Sequences

VSS_TYPE_NVT_ASCII == 0
VSS_TYPE_RFC2685_VPN_ID == 1
VSS_TYPE_GLOBAL == 255

VSS_SUBOPT_CODE == 151
VSS_CONTROL_SUBOPT_CODE == 152
VSS_OPTION_CODE == 68

\* VssConfig::validate_vss returns Ok.
ValidateVss(v) ==
  \/ v.vss_type = VSS_TYPE_NVT_ASCII
  \/ v.vss_type = VSS_TYPE_RFC2685_VPN_ID /\ Len(v.vss_info) = 7
  \/ v.vss_type = VSS_TYPE_GLOBAL /\ v.vss_info = <<>>

\* RelayConfig::validate returns Ok.  `interfaces' are the interface names.
Validate(cfg) ==
  /\ cfg.interfaces # <<>>
  /\ \A i \in DOMAIN cfg.interfaces : cfg.interfaces[i] # ""
  /\ \A v \in {cfg.dhcpv4, cfg.dhcpv6} : v.enabled => ValidateVss(v)

\* encode_sub_opts of a valid configuration: sub-option 151 ...
VssSubOpt(v) ==
  <<VSS_SUBOPT_CODE, (1 + Len(v.vss_info)) % 256, v.vss_type>> \o v.vss_info

\* ... and sub-option 152.
VssControl == <<VSS_CONTROL_SUBOPT_CODE, 0>>

\* A plausible slip: the scan does not skip the values of the sub-options.
CheckServerSupportEveryPair(raw) ==
  LET scan[pos \in Nat] ==
        IF pos + 2 > Len(raw) THEN TRUE
        ELSE raw[pos + 1] # VSS_CONTROL_SUBOPT_CODE /\ scan[pos + 2]
  IN  scan[0]

\* check_server_support: no VSS-Control among the sub-options.
CheckServerSupport(raw) ==
  LET scan[pos \in Nat] ==
        IF pos + 2 > Len(raw) THEN TRUE
        ELSE /\ raw[pos + 1] # VSS_CONTROL_SUBOPT_CODE
             /\ scan[pos + 2 + raw[pos + 2]]
  IN  scan[0]

\* vss::encode of DHCPv6.
EncodeV6(v) == [code |-> VSS_OPTION_CODE, data |-> <<v.vss_type>> \o v.vss_info]

\* vss::extract: the type and the info in the first VSS option, if any.
ExtractV6(opts) ==
  LET vss   == {k \in DOMAIN opts : opts[k].code = VSS_OPTION_CODE}
      first == CHOOSE k \in vss : \A j \in vss : k <= j
      data  == opts[first].data
  IN  IF vss = {} \/ data = <<>> THEN {} ELSE {<<Head(data), Tail(data)>>}
=============================================================================
