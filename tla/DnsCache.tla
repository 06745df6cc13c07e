------------------------------ MODULE DnsCache ------------------------------
(***************************************************************************)
(* The resolver with a cache (dns_cache.rs), for one host name: lookups of *)
(* connections that start, the loop that refreshes the entry, and a reload *)
(* that replaces the resolver and aborts its loop.  DNS itself is          *)
(* external: the set of addresses of the host changes now and then.        *)
(*                                                                         *)
(* The actions here say nothing of the variables of other modules.         *)
(***************************************************************************)
EXTENDS Naturals, Sequences

CONSTANTS
  None,
  Addrs,           \* the sets of addresses the host may have
  FirstAddrs,      \* the one it has at first
  MaxFlips,        \* bound: changes of DNS
  MaxReloads       \* bound: reloads that change the resolver's configuration

VARIABLES
  dns,             \* external: what DNS says now
  resolver,        \* CACHED_RESOLVER: [id, enabled, data]; data is the entry of the host
  refresh,         \* the loop of that resolver: [at, old, new]
  flips

dnsVars == <<dns, resolver, refresh, flips>>

Asleep == [at |-> "sleep", old |-> None, new |-> None]

DnsInit ==
  /\ dns = FirstAddrs
  /\ resolver = [id |-> 0, enabled |-> TRUE, data |-> None]
  /\ refresh = Asleep
  /\ flips = 0

Flip ==
  /\ flips < MaxFlips
  /\ flips' = flips + 1
  /\ dns' \in Addrs \ {dns}
  /\ UNCHANGED <<resolver, refresh>>

-----------------------------------------------------------------------------
(* refresh_dns_entries_loop *)

\* The entry is there: it is remembered, and DNS is asked.
RefreshAsk ==
  /\ resolver.enabled
  /\ refresh.at = "sleep"
  /\ resolver.data # None
  /\ refresh' = [at |-> "asked", old |-> resolver.data, new |-> None]
  /\ UNCHANGED <<dns, resolver, flips>>

RefreshAnswer ==
  /\ refresh.at = "asked"
  /\ refresh' = [refresh EXCEPT !.at = "answered", !.new = dns]
  /\ UNCHANGED <<dns, resolver, flips>>

\* The lookup fails, and the entry stays.
RefreshError ==
  /\ refresh.at = "asked"
  /\ refresh' = Asleep
  /\ UNCHANGED <<dns, resolver, flips>>

\* Mutation of RefreshStore: the remembered entry is written back.
Mut_RefreshStore ==
  /\ refresh.at = "answered"
  /\ resolver' = [resolver EXCEPT !.data = IF refresh.old # refresh.new THEN refresh.old ELSE @]
  /\ refresh' = Asleep
  /\ UNCHANGED <<dns, flips>>

\* The answer is compared with what was remembered.
RefreshStore ==
  /\ refresh.at = "answered"
  /\ resolver' = [resolver EXCEPT !.data = IF refresh.old # refresh.new THEN refresh.new ELSE @]
  /\ refresh' = Asleep
  /\ UNCHANGED <<dns, flips>>

Refresh == RefreshAsk \/ RefreshAnswer \/ RefreshError \/ RefreshStore

-----------------------------------------------------------------------------
(* from_config: another configuration, another resolver with the same entries *)

ReloadResolver ==
  /\ resolver.id < MaxReloads
  /\ \E enabled \in BOOLEAN :
       resolver' = [resolver EXCEPT !.id = @ + 1, !.enabled = enabled]
  /\ refresh' = Asleep
  /\ UNCHANGED <<dns, flips>>

-----------------------------------------------------------------------------
(* lookup_ip and what connections use *)

\* store_in_cache, in the resolver that the lookup began with.
store_in_cache(id, addrs) ==
  resolver' = IF id = resolver.id THEN [resolver EXCEPT !.data = addrs] ELSE resolver

has_changed(addrs) == resolver.data # None /\ resolver.data # addrs

Dns == Flip \/ Refresh \/ ReloadResolver
=============================================================================
