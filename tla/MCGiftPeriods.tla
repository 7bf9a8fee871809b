---------------------------- MODULE MCGiftPeriods ----------------------------
(* Three days, two edits at a time with a banner or with a member.  Banners *)
(* and members write nothing the others read, so runs with both at once add *)
(* nothing and are left out.                                                *)
EXTENDS GiftPeriods

BannerOrMember ==
    \/ memo = NoMemo /\ \A b \in Readers : reader[b] = Asleep
    \/ results = {} /\ \A u \in Members : member[u] = Away
=============================================================================
