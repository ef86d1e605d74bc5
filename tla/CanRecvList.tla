----------------------------- MODULE CanRecvList -----------------------------
(***************************************************************************)
(* The reception lists of RT-Socket-CAN: which socket hears which device.  *)
(* Every device owns an array of list entries; recv_list links those that  *)
(* hold a filter of a bound socket, empty_list the others (rtcan_dev.c).   *)
(* bind, setsockopt(CAN_RAW_FILTER) and close (rtcan_raw.c) move runs of   *)
(* entries between the two (rtcan_raw_filter.c).                           *)
(*                                                                         *)
(* A section under rtcan_recv_list_lock is one action.  setsockopt reads   *)
(* the socket's ifindex before it takes the lock, so it is two actions.    *)
(* Registration of a device does not take that lock; it is atomic here.    *)
(*                                                                         *)
(* A walk that leaves a list dereferences NULL, and freeing the marker     *)
(* RTCAN_FLIST_NO_FILTER frees no allocation: either ends the run, with    *)
(* `fault' set.                                                            *)
(***************************************************************************)
EXTENDS Integers, Sequences, FiniteSets

CONSTANTS
    MaxDevices,    \* RTCAN_MAX_DEVICES
    MaxReceivers,  \* RTCAN_MAX_RECEIVERS
    Sockets,       \* open sockets
    MaxFilters,    \* bound: filters in a list given to setsockopt
    MaxCalls,      \* bound: setsockopt calls under way at the same time
    GoOn           \* bound: whether to go on once a binding was overtaken

ASSUME RecvListAssumption ==
    MaxDevices \in Nat /\ MaxReceivers \in Nat \ {0} /\ MaxFilters \in 1..MaxReceivers
    /\ MaxCalls \in Nat /\ GoOn \in BOOLEAN

VARIABLES
    present,   \* ifindexes of the registered devices
    list,      \* recv_list, empty_list and free_entries of each device
    ifindex,   \* sock->ifindex; 0: all interfaces
    flistlen,  \* sock->flistlen; -1: unbound
    flist,     \* sock->flist: Null, NoFilter or the length of an allocated list
    call,      \* setsockopt before the lock: the ifindex read, the new list
    fault,     \* how the kernel crashed, if it did
    overtaken  \* history: a binding was overtaken by a new device or a stale ifindex

vars == <<present, list, ifindex, flistlen, flist, call, fault, overtaken>>

Devices == 1..MaxDevices
Entries == 1..MaxReceivers
Null == 0          \* no list defined: one entry that takes every frame
NoFilter == -1     \* RTCAN_FLIST_NO_FILTER: no entry at all
Unbound == -1      \* RTCAN_SOCK_UNBOUND
NoCall == [ifindex |-> -1, flist |-> Null]

Recv == [entry : Entries, sock : Sockets]
TypeOK ==
    /\ present \in SUBSET Devices
    /\ \A i \in Devices : /\ list[i].recv \in Seq(Recv) /\ list[i].empty \in Seq(Entries)
                          /\ list[i].free \in 0..MaxReceivers
    /\ ifindex \in [Sockets -> 0..MaxDevices]
    /\ flistlen \in [Sockets -> Unbound..MaxReceivers]
    /\ flist \in [Sockets -> NoFilter..MaxFilters]
    /\ call \in [Sockets -> [ifindex : -1..MaxDevices, flist : NoFilter..MaxFilters]]
    /\ fault \in {"none", "runaway", "badfree"}
    /\ overtaken \in BOOLEAN

IsBound(s) == flistlen[s] >= 0
HasFilter(s) == flistlen[s] > 0

(* The registered devices a binding to i is about. *)
Covered(i) == {d \in present : i = 0 \/ d = i}

(* Entries a list takes on each device. *)
Needed(fl) == CASE fl = NoFilter -> 0 [] fl = Null -> 1 [] OTHER -> fl

-----------------------------------------------------------------------------
(* rtcan_raw_check_filter: the entries the socket already has on a device  *)
(* count as free.                                                          *)
FitsAnywhere(s, i, fl) ==   \* mutant: the old entries count on every device
    \A d \in Covered(i) :
        list[d].free + (IF HasFilter(s) THEN flistlen[s] ELSE 0) >= Needed(fl)
Fits(s, i, fl) ==
    \A d \in Covered(i) :
        list[d].free + (IF HasFilter(s) /\ ifindex[s] \in {0, d} THEN flistlen[s] ELSE 0)
            >= Needed(fl)

(* rtcan_raw_add_filter on one device: the first n empty entries become    *)
(* the head of recv_list.                                                  *)
CanAdd(L, n) == Len(L.empty) >= n
AddedSkips(L, s, n) ==      \* mutant: takes one entry too many off empty_list
    [recv  |-> [k \in 1..n |-> [entry |-> L.empty[k], sock |-> s]] \o L.recv,
     empty |-> SubSeq(L.empty, n + 2, Len(L.empty)),
     free  |-> L.free - n]
Added(L, s, n) ==
    [recv  |-> [k \in 1..n |-> [entry |-> L.empty[k], sock |-> s]] \o L.recv,
     empty |-> SubSeq(L.empty, n + 1, Len(L.empty)),
     free  |-> L.free - n]

(* rtcan_raw_remove_filter on one device: the first entry of the socket    *)
(* and the n - 1 entries after it go back to the head of empty_list.       *)
Start(L, s) == CHOOSE k \in 1..Len(L.recv) :
    L.recv[k].sock = s /\ \A j \in 1..(k - 1) : L.recv[j].sock # s
CanRemove(L, s, n) ==
    /\ \E k \in 1..Len(L.recv) : L.recv[k].sock = s
    /\ Start(L, s) + n - 1 <= Len(L.recv)
RemovedHead(L, s, n) ==     \* mutant: takes the run from the head of recv_list
    [recv  |-> SubSeq(L.recv, n + 1, Len(L.recv)),
     empty |-> [j \in 1..n |-> L.recv[j].entry] \o L.empty,
     free  |-> L.free + n]
Removed(L, s, n) ==
    LET k == Start(L, s) IN
    [recv  |-> SubSeq(L.recv, 1, k - 1) \o SubSeq(L.recv, k + n, Len(L.recv)),
     empty |-> [j \in 1..n |-> L.recv[k + j - 1].entry] \o L.empty,
     free  |-> L.free + n]

(* Both loops over the devices. *)
Unlinkable(s) ==
    HasFilter(s) => \A d \in Covered(ifindex[s]) : CanRemove(list[d], s, flistlen[s])
Unlinked(s) ==
    [d \in Devices |-> IF HasFilter(s) /\ d \in Covered(ifindex[s])
                       THEN Removed(list[d], s, flistlen[s]) ELSE list[d]]
Linkable(ls, i, fl) == \A d \in Covered(i) : CanAdd(ls[d], Needed(fl))
Linked(ls, s, i, fl) ==
    [d \in Devices |-> IF fl # NoFilter /\ d \in Covered(i)
                       THEN Added(ls[d], s, Needed(fl)) ELSE ls[d]]

-----------------------------------------------------------------------------
(* rtcan_dev_alloc *)
Fresh == [recv |-> <<>>, empty |-> [k \in Entries |-> k], free |-> MaxReceivers]

(* rtcan_socket_init; no device yet. *)
Init ==
    /\ present = {} /\ list = [i \in Devices |-> Fresh]
    /\ ifindex = [s \in Sockets |-> 0] /\ flistlen = [s \in Sockets |-> Unbound]
    /\ flist = [s \in Sockets |-> Null] /\ call = [s \in Sockets |-> NoCall]
    /\ fault = "none" /\ overtaken = FALSE

Running == fault = "none" /\ (overtaken => GoOn)

(* rtcan_dev_register: the lowest free index.  A socket bound to this      *)
(* index, or to all, has no entry on the new device.                       *)
Register(i) ==
    /\ Running /\ i \notin present /\ \A j \in 1..(i - 1) : j \in present
    /\ present' = present \cup {i}
    /\ list' = [list EXCEPT ![i] = Fresh]
    /\ overtaken' = (overtaken \/ \E s \in Sockets : HasFilter(s) /\ ifindex[s] \in {0, i})
    /\ UNCHANGED <<ifindex, flistlen, flist, call, fault>>

(* rtcan_dev_unregister and rtcan_dev_free: the lists go, bindings stay. *)
Unregister(i) ==
    /\ Running /\ i \in present
    /\ present' = present \ {i}
    /\ list' = [list EXCEPT ![i] = Fresh]
    /\ UNCHANGED <<ifindex, flistlen, flist, call, fault, overtaken>>

Crash(f) == fault' = f /\ UNCHANGED <<present, list, ifindex, flistlen, flist, call, overtaken>>

(* rtcan_raw_bind to interface i; -ENOSPC changes nothing. *)
BindFailing(s, i) ==        \* mutant: the old entries go before the check
    /\ Running
    /\ IF Fits(s, i, flist[s]) /\ Linkable(Unlinked(s), i, flist[s])
       THEN /\ list' = Linked(Unlinked(s), s, i, flist[s])
            /\ flistlen' = [flistlen EXCEPT ![s] = Needed(flist[s])]
            /\ ifindex' = [ifindex EXCEPT ![s] = i]
       ELSE /\ list' = Unlinked(s)
            /\ UNCHANGED <<flistlen, ifindex>>
    /\ UNCHANGED <<present, flist, call, fault, overtaken>>
Bind(s, i) ==
    /\ Running /\ Fits(s, i, flist[s])
    /\ IF Unlinkable(s) /\ Linkable(Unlinked(s), i, flist[s])
       THEN /\ list' = Linked(Unlinked(s), s, i, flist[s])
            /\ flistlen' = [flistlen EXCEPT ![s] = Needed(flist[s])]
            /\ ifindex' = [ifindex EXCEPT ![s] = i]
            /\ UNCHANGED <<present, flist, call, fault, overtaken>>
       ELSE Crash("runaway")

(* setsockopt(CAN_RAW_FILTER): ifindex is read, the list is allocated and  *)
(* filled, or the marker taken for optlen = 0 ...                          *)
SetFilter(s, fl) ==
    /\ Running /\ call[s] = NoCall
    /\ Cardinality({t \in Sockets : call[t] # NoCall}) < MaxCalls
    /\ call' = [call EXCEPT ![s] = [ifindex |-> ifindex[s], flist |-> fl]]
    /\ UNCHANGED <<present, list, ifindex, flistlen, flist, fault, overtaken>>

(* ... and under the lock the new list replaces the old one, -ENOSPC if it *)
(* does not fit.                                                           *)
Install(s) ==
    LET i == call[s].ifindex
        fl == call[s].flist
        ls == Unlinked(s)
        done == call' = [call EXCEPT ![s] = NoCall]
    IN
    /\ Running /\ call[s] # NoCall
    /\ IF IsBound(s) /\ ~Fits(s, i, fl)
       THEN done /\ UNCHANGED <<present, list, ifindex, flistlen, flist, fault, overtaken>>
       ELSE IF ~Unlinkable(s) THEN Crash("runaway")
       ELSE IF fl # NoFilter /\ flist[s] = NoFilter THEN Crash("badfree")
       ELSE IF ~IsBound(s)
       THEN /\ done /\ flist' = [flist EXCEPT ![s] = fl]
            /\ UNCHANGED <<present, list, ifindex, flistlen, fault, overtaken>>
       ELSE IF ~Linkable(ls, i, fl) THEN Crash("runaway")
       ELSE /\ done /\ flist' = [flist EXCEPT ![s] = fl]
            /\ list' = Linked(ls, s, i, fl)
            /\ flistlen' = [flistlen EXCEPT ![s] = Needed(fl)]
            /\ overtaken' = (overtaken \/ i # ifindex[s])
            /\ UNCHANGED <<present, ifindex, fault>>

(* rtcan_raw_close; the socket is then opened anew.  Nobody is inside      *)
(* another call on it by then.                                             *)
Close(s) ==
    /\ Running /\ call[s] = NoCall
    /\ IF Unlinkable(s)
       THEN /\ list' = Unlinked(s)
            /\ ifindex' = [ifindex EXCEPT ![s] = 0]
            /\ flistlen' = [flistlen EXCEPT ![s] = Unbound]
            /\ flist' = [flist EXCEPT ![s] = Null]
            /\ UNCHANGED <<present, call, fault, overtaken>>
       ELSE Crash("runaway")

-----------------------------------------------------------------------------
Next ==
    \/ \E i \in Devices : Register(i) \/ Unregister(i)
    \/ \E s \in Sockets :
          \/ \E i \in 0..MaxDevices : Bind(s, i)
          \/ \E fl \in {NoFilter} \cup 1..MaxFilters : SetFilter(s, fl)
          \/ Install(s) \/ Close(s)

Spec == Init /\ [][Next]_vars

-----------------------------------------------------------------------------
(* recv_list and empty_list of a device are disjoint and together hold     *)
(* every entry once, and free_entries is the length of empty_list, as the  *)
(* comments in rtcan_dev.h have it.                                        *)
Links(L) == [k \in 1..Len(L.recv) |-> L.recv[k].entry] \o L.empty
ListsPartition ==
    \A d \in present :
        /\ list[d].free = Len(list[d].empty)
        /\ Len(Links(list[d])) = MaxReceivers
        /\ \A e \in Entries : \E k \in 1..MaxReceivers : Links(list[d])[k] = e

(* The entries of a socket on a device, by position in recv_list. *)
Positions(s, d) == {k \in 1..Len(list[d].recv) : list[d].recv[k].sock = s}

(* A socket bound with filters has on each device of its binding one run   *)
(* of flistlen entries, and nothing elsewhere: it hears the devices it is  *)
(* bound to and no other.  This ends when a binding is overtaken, by a     *)
(* device registered under it or by a setsockopt that had read an older    *)
(* ifindex.                                                                *)
BindingExact ==
    ~overtaken =>
        \A s \in Sockets, d \in present :
            IF HasFilter(s) /\ d \in Covered(ifindex[s])
            THEN \E k \in 1..MaxReceivers : Positions(s, d) = k..(k + flistlen[s] - 1)
            ELSE Positions(s, d) = {}

(* No list walk runs off the end before a binding is overtaken: the search *)
(* for a socket's entries finds them, and whatever rtcan_raw_check_filter  *)
(* lets pass finds enough empty entries.                                   *)
WalksEnd ==
    ~overtaken =>
        \A s \in Sockets :
            /\ Unlinkable(s)
            /\ \A i \in 0..MaxDevices, fl \in NoFilter..MaxFilters :
                  Fits(s, i, fl) => Linkable(Unlinked(s), i, fl)

(* The entries of a socket follow its binding: an operation on another     *)
(* socket, or one of its own that fails with -ENOSPC, leaves them as they  *)
(* are ("old binding is still active"), and in the same order.  EntriesOf  *)
(* is that order: the first of a pair is the second or comes before it.    *)
EntriesOf(L, s) ==
    {p \in Entries \X Entries :
        \E j \in 1..Len(L.recv), k \in 1..Len(L.recv) :
            /\ j <= k /\ L.recv[j] = [entry |-> p[1], sock |-> s]
            /\ L.recv[k] = [entry |-> p[2], sock |-> s]}
EntriesFollowBinding ==
    [][~overtaken' =>
         \A s \in Sockets, d \in present \cap present' :
            flistlen'[s] = flistlen[s] /\ ifindex'[s] = ifindex[s]
               => EntriesOf(list'[d], s) = EntriesOf(list[d], s)]_vars
=============================================================================
