------------------------- MODULE DesktopBridgeProofs -------------------------
(***************************************************************************)
(* Theorems about the desktop actions of a run, for any deployments,       *)
(* instructions and number of steps, faults and outages.                   *)
(*                                                                         *)
(* A post that the client gave up on goes on by itself, so what is known   *)
(* of a step is not what the client was told.  The invariant follows the   *)
(* post instead: a step has one post on its way to the desktop at most     *)
(* (Going), that one was not carried out yet, and a definite answer means  *)
(* that none is on its way any more.                                       *)
(***************************************************************************)
EXTENDS DesktopBridge, TLAPS

Paths    == {"unknown", "ait", "aillium"}
Refusals == {"401", "403", "404", "declined"}
Codes    == Refusals \cup {"NO_BACKEND", "NO_GRANT", "INVALID_AUTHORITY", "TIMEOUT",
                           "NETWORK_ERROR", "INVALID_RESPONSE", "502", "ok"}
Replies  == Refusals \cup {"none", "502", "ok"}
Grants   == [step: Nat, shape: {"whole", "partial", "mismatched"}, fence: Nat]
Posts    == [step: Nat, grant: Grants, path: Paths, at: {"gateway", "bridge", "back"},
             reply: Replies]
Receipts == [code: Codes, posted: BOOLEAN]
Applies  == [step: Nat, grant: Grants]
Desktops == [wifi: {"on", "off"}, foreground: {"desktop", "settings"}]
Cards    == [phase: Paths \cup {"idle"},
             state: {"unknown", "unconfigured", "configured", "live"}]

Shape ==
    /\ setup \in Setups
    /\ dialect \in Paths /\ ready \in {"unknown", "ready", "not ready"} /\ phase \in Phases
    /\ wanted \in Seq(Instructions) /\ results \in Seq(Receipts)
    /\ Len(wanted) = Len(results) + (IF phase = "idle" THEN 0 ELSE 1)
    /\ grant \in Grants /\ posts \subseteq Posts /\ applied \in Seq(Applies)
    /\ desktop \in Desktops
    /\ shown \in [after: Nat, wifi: {"unread", "on", "off"}]
    /\ card \in Cards

\* The action of step s is on its way to the desktop.
Going(s) == \E p \in posts : p.step = s /\ p.at # "back"

\* What a post may be, and what an answer on its way back says.
IsWhole(g, s) == g.shape = "whole" /\ g.step = s
PostIsSound(p) ==
    /\ p.step \in 1..Len(wanted) /\ IsWhole(p.grant, p.step) /\ p.grant.fence <= grant.fence
    /\ p.at # "back" => ~Applied(p.step)
    /\ p.at = "back" =>
         /\ p.reply # "none"
         /\ p.reply # "502" => ~Going(p.step)
         /\ p.reply = "ok" => Applied(p.step)
         /\ p.reply \in Refusals => ~Applied(p.step)

\* A grant takes the place of one given before, or is that one.
Follows(g, h) == \A n \in Nat : n <= g.fence => n <= h.fence

\* A step is posted once, under the grant that was given for it.
PostsAreSound ==
    /\ \A p \in posts : PostIsSound(p)
    /\ \A p, q \in posts : p.step = q.step /\ p.at # "back" /\ q.at # "back" => p = q
    /\ phase \in {"authority", "discover ait", "discover aillium"} =>
         ~Applied(Len(wanted)) /\ \A p \in posts : p.step # Len(wanted)
    /\ phase \in {"discover ait", "discover aillium"} => IsWhole(grant, Len(wanted))

\* What is said of a finished step stays true.
ReceiptHolds(s) ==
    /\ results[s].code = "ok" => Applied(s)
    /\ ~results[s].posted \/ results[s].code \in Refusals => ~Applied(s)
    /\ ~Uncertain(s) => ~Going(s)
ReceiptsHold == \A s \in DOMAIN results : ReceiptHolds(s)

AppliesAreSound ==
    /\ \A i \in DOMAIN applied :
          applied[i].step \in 1..Len(wanted) /\ IsWhole(applied[i].grant, applied[i].step)
    /\ ActedOnce

\* The last step's fix is still there, unless an earlier action may come late.
FixStands ==
    LET s == Len(wanted)
    IN  s > 0 /\ Applied(s) /\ wanted[s] = "wifi on" /\ (\A r \in 1..(s - 1) : ~Uncertain(r))
          => desktop.wifi = "on"
FixShows == shown.after <= Len(results) /\ FixShowsInTerminal

IInv ==
    Shape /\ PostsAreSound /\ ReceiptsHold /\ AppliesAreSound /\ FixStands /\ FixShows

-----------------------------------------------------------------------------
\* Counting steps.
LEMMA Counting ==
    /\ \A n \in Nat : n <= n
    /\ \A m \in Nat : m + 1 \in 1..(m + 1) /\ m + 1 \notin 1..m
    /\ \A s \in Nat : \A i \in 1..s : i # s => i \in 1..(s - 1)
    /\ \A s, k \in Nat : \A i \in 1..(s - 1) : s <= k + 1 => i \in 1..k
  OBVIOUS

\* What each variable holds.
LEMMA Lengths ==
    ASSUME Shape
    PROVE  /\ Len(wanted) \in Nat /\ Len(results) \in Nat
           /\ phase = "idle" => Len(wanted) = Len(results)
           /\ phase # "idle" => Len(wanted) = Len(results) + 1
           /\ Len(results) <= Len(wanted) /\ Len(wanted) <= Len(results) + 1
<1>1. Len(wanted) \in Nat /\ Len(results) \in Nat
  <2>1. wanted \in Seq(Instructions) /\ results \in Seq(Receipts)
    BY DEF Shape
  <2> QED BY <2>1
<1>2. Len(wanted) = Len(results) + (IF phase = "idle" THEN 0 ELSE 1)
  BY DEF Shape
<1>3. CASE phase = "idle"
  BY <1>1, <1>2, <1>3
<1>4. CASE phase # "idle"
  BY <1>1, <1>2, <1>4
<1> QED BY <1>3, <1>4

LEMMA Domains ==
    ASSUME Shape
    PROVE  /\ DOMAIN wanted = 1..Len(wanted) /\ DOMAIN results = 1..Len(results)
           /\ DOMAIN applied = 1..Len(applied) /\ Len(applied) \in Nat
<1>1. wanted \in Seq(Instructions) /\ results \in Seq(Receipts) /\ applied \in Seq(Applies)
  BY DEF Shape
<1> QED BY <1>1

LEMMA Facts ==
    ASSUME Shape
    PROVE  /\ grant \in Grants /\ grant.fence \in Nat
           /\ \A p \in posts : p \in Posts /\ p.grant \in Grants /\ p.grant.fence \in Nat
<1>1. grant \in Grants /\ \A p \in posts : p \in Posts
  BY DEF Shape
<1>2. \A p \in Posts : p.grant \in Grants
  BY DEF Posts
<1>3. \A g \in Grants : g.fence \in Nat
  BY DEF Grants
<1> QED BY <1>1, <1>2, <1>3

\* Nothing is posted, carried out or settled.
LEMMA WaitKeeps ==
    ASSUME IInv, UNCHANGED <<setup, posts, wanted, results, applied, desktop, shown>>,
           dialect' \in Paths, ready' \in {"unknown", "ready", "not ready"}, card' \in Cards,
           phase' \in Phases, phase' = "idle" <=> phase = "idle",
           phase' \in {"authority", "discover ait", "discover aillium"} =>
              phase \in {"authority", "discover ait", "discover aillium"},
           grant' \in Grants, Follows(grant, grant'),
           phase' \in {"discover ait", "discover aillium"} => IsWhole(grant', Len(wanted))
    PROVE  IInv'
<1>1. Shape'
  BY DEF IInv, Shape
<1>2. PostsAreSound'
  <2>1. ASSUME NEW p \in posts PROVE PostIsSound(p)'
    <3>1. PostIsSound(p) /\ p.grant.fence \in Nat
      BY Facts DEF IInv, PostsAreSound
    <3>2. p.grant.fence <= grant'.fence
      BY <3>1 DEF PostIsSound, Follows
    <3> QED BY <3>1, <3>2 DEF PostIsSound, Applied, Going
  <2>2. phase' \in {"discover ait", "discover aillium"} => IsWhole(grant, Len(wanted))'
    BY DEF IsWhole
  <2> QED BY <2>1, <2>2 DEF IInv, PostsAreSound, Applied
<1>3. ReceiptsHold' /\ AppliesAreSound' /\ FixStands' /\ FixShows'
  BY DEF IInv, ReceiptsHold, ReceiptHolds, Uncertain, Going, Applied, AppliesAreSound, ActedOnce,
         FixStands, FixShows, FixShowsInTerminal
<1> QED BY <1>1, <1>2, <1>3 DEF IInv

\* The action under way ends with what is known of it.
LEMMA SettleKeeps ==
    ASSUME IInv, phase # "idle", phase' = "idle",
           NEW c \in Codes, NEW b \in BOOLEAN,
           results' = Append(results, [code |-> c, posted |-> b]),
           UNCHANGED <<setup, ready, wanted, applied, desktop, shown, card>>,
           dialect' \in Paths, grant' \in Grants, Follows(grant, grant'),
           posts' \subseteq posts,
           c = "ok" => Applied(Len(wanted)),
           ~b \/ c \in Refusals => ~Applied(Len(wanted)),
           ~b \/ c \notin {"TIMEOUT", "502", "INVALID_RESPONSE"} => ~Going(Len(wanted))
    PROVE  IInv'
<1> DEFINE e == [code |-> c, posted |-> b]
<1>1. e \in Receipts /\ e.code = c /\ e.posted = b
  BY DEF Receipts
<1> HIDE DEF e
<1>2. /\ results \in Seq(Receipts) /\ Len(results) \in Nat
      /\ Len(wanted) = Len(results) + 1 /\ Len(wanted) \in Nat
  BY Lengths DEF IInv, Shape
<1>3. /\ results' \in Seq(Receipts) /\ Len(results') = Len(wanted)
      /\ DOMAIN results' = 1..Len(wanted) /\ results'[Len(wanted)] = e
      /\ \A s \in DOMAIN results : s \in DOMAIN results' /\ results'[s] = results[s]
      /\ \A s \in DOMAIN results' : s = Len(wanted) \/ s \in DOMAIN results
      /\ \A s \in 1..(Len(wanted) - 1) : s \in DOMAIN results
  <2>1. results' = Append(results, e)
    BY DEF e
  <2> QED BY <1>1, <1>2, <2>1
<1>4. Shape'
  <2>1. Len(wanted') = Len(results') + (IF phase' = "idle" THEN 0 ELSE 1)
    BY <1>2, <1>3
  <2> QED BY <1>3, <2>1 DEF IInv, Shape, Phases
<1>5. \A s : Going(s)' => Going(s)
  BY DEF Going
<1>6. \A s : Applied(s)' <=> Applied(s)
  BY DEF Applied
<1>7. PostsAreSound'
  <2>1. ASSUME NEW p \in posts' PROVE PostIsSound(p)'
    <3>1. PostIsSound(p) /\ p.grant.fence \in Nat
      BY <2>1, Facts DEF IInv, PostsAreSound
    <3>2. p.grant.fence <= grant'.fence
      BY <3>1 DEF PostIsSound, Follows
    <3> QED BY <1>5, <1>6, <3>1, <3>2 DEF PostIsSound
  <2> QED BY <2>1 DEF IInv, PostsAreSound
<1>8. ReceiptsHold'
  <2> SUFFICES ASSUME NEW s \in DOMAIN results' PROVE ReceiptHolds(s)'
    BY DEF ReceiptsHold
  <2>1. CASE s \in DOMAIN results
    <3>1. ReceiptHolds(s) /\ results'[s] = results[s]
      BY <1>3, <2>1 DEF IInv, ReceiptsHold
    <3> QED BY <1>5, <1>6, <3>1 DEF ReceiptHolds, Uncertain
  <2>2. CASE s = Len(wanted)
    <3>1. results'[s].code = c /\ results'[s].posted = b
      BY <1>1, <1>3, <2>2
    <3> QED BY <1>5, <1>6, <2>2, <3>1 DEF ReceiptHolds, Uncertain
  <2> QED BY <1>3, <2>1, <2>2
<1>9. AppliesAreSound'
  BY DEF IInv, AppliesAreSound, ActedOnce
<1>10. FixStands'
  <2>1. \A r \in 1..(Len(wanted) - 1) : Uncertain(r)' <=> Uncertain(r)
    BY <1>3 DEF Uncertain
  <2> QED BY <1>6, <2>1 DEF IInv, FixStands
<1>11. FixShows'
  <2>1. PICK a \in Nat : a = shown.after
    BY DEF IInv, Shape
  <2>2. a <= Len(results)
    BY <2>1 DEF IInv, FixShows
  <2>3. a <= Len(results') /\ a # Len(results')
    BY <1>2, <1>3, <2>2
  <2> QED BY <2>1, <2>3 DEF FixShows, FixShowsInTerminal
<1> QED BY <1>4, <1>7, <1>8, <1>9, <1>10, <1>11 DEF IInv

\* The action is posted, for the first time.
LEMMA PostKeeps ==
    ASSUME IInv, phase \in {"authority", "discover ait", "discover aillium"},
           phase' = "invoked", NEW path \in Paths,
           posts' = posts \cup {[step |-> Len(wanted), grant |-> grant', path |-> path,
                                 at |-> "gateway", reply |-> "none"]},
           grant' \in Grants, Follows(grant, grant'), IsWhole(grant', Len(wanted)),
           UNCHANGED <<setup, ready, wanted, results, applied, desktop, shown, card>>,
           dialect' \in Paths
    PROVE  IInv'
<1>1. PICK g \in Grants : g = grant'
  OBVIOUS
<1> DEFINE q == [step |-> Len(wanted), grant |-> g, path |-> path, at |-> "gateway",
                 reply |-> "none"]
<1>2. PICK m \in Nat, n \in Nat : m = Len(results) /\ n = Len(wanted) /\ n = m + 1
  BY Lengths DEF IInv
<1>3. PICK p \in Posts : /\ posts' = posts \cup {p}
                         /\ p.step = n /\ p.grant = g /\ p.at = "gateway"
  <2>1. q \in Posts
    BY <1>2 DEF Posts, Replies
  <2> QED BY <1>1, <1>2, <2>1
<1>4. n \in 1..Len(wanted) /\ n \notin 1..Len(results)
  <2>1. n \in 1..n /\ n \notin 1..m
    BY <1>2, Counting
  <2> QED BY <1>2, <2>1
<1>5. \A s : Going(s)' <=> Going(s) \/ s = n
  BY <1>3 DEF Going
<1>6. \A s : Applied(s)' <=> Applied(s)
  BY DEF Applied
<1>7. ~Applied(n) /\ \A r \in posts : r.step # n
  BY <1>2 DEF IInv, PostsAreSound
<1>8. Shape'
  BY <1>3 DEF IInv, Shape, Phases
<1>9. PostsAreSound'
  <2>1. PostIsSound(p)'
    <3>1. g.fence <= grant'.fence
      <4>1. g.fence \in Nat
        BY DEF Grants
      <4>2. g.fence <= g.fence
        BY <4>1, Counting
      <4> QED BY <1>1, <4>2
    <3>2. IsWhole(p.grant, p.step)
      BY <1>1, <1>2, <1>3
    <3> QED BY <1>3, <1>4, <1>6, <1>7, <3>1, <3>2 DEF PostIsSound
  <2>2. ASSUME NEW r \in posts PROVE PostIsSound(r)'
    <3>1. PostIsSound(r) /\ r.grant.fence \in Nat
      BY Facts DEF IInv, PostsAreSound
    <3>2. r.grant.fence <= grant'.fence
      BY <3>1 DEF PostIsSound, Follows
    <3>3. r.step # n
      BY <1>7
    <3> QED BY <1>5, <1>6, <3>1, <3>2, <3>3 DEF PostIsSound
  <2>3. \A r \in posts' : r = p \/ r \in posts
    BY <1>3
  <2>4. \A r, o \in posts' : r.step = o.step /\ r.at # "back" /\ o.at # "back" => r = o
    BY <1>3, <1>7, <2>3 DEF IInv, PostsAreSound
  <2> QED BY <2>1, <2>2, <2>3, <2>4 DEF PostsAreSound
<1>10. ReceiptsHold'
  <2>1. \A s \in DOMAIN results : s # n
    <3>1. DOMAIN results = 1..Len(results)
      BY Domains DEF IInv
    <3> QED BY <1>4, <3>1
  <2> QED BY <1>5, <1>6, <2>1 DEF IInv, ReceiptsHold, ReceiptHolds, Uncertain
<1>11. AppliesAreSound' /\ FixStands' /\ FixShows'
  BY DEF IInv, AppliesAreSound, ActedOnce, FixStands, FixShows, FixShowsInTerminal,
         Applied, Uncertain
<1> QED BY <1>8, <1>9, <1>10, <1>11 DEF IInv

\* A post goes on to q, or is lost; a copy of it that the gateway answers with a
\* 502 may go on besides.
LEMMA MoveKeeps ==
    ASSUME IInv, NEW p \in posts, NEW q \in Posts,
           q.step = p.step, q.grant = p.grant, p.at # "back",
           q.at # "back" => p \notin posts',
           q.at = "back" => q.reply \notin {"none", "ok"},
           q.at = "back" /\ q.reply # "502" => p \notin posts',
           posts' \subseteq posts \cup {q},
           UNCHANGED <<setup, dialect, ready, phase, wanted, grant, results, applied, desktop>>,
           UNCHANGED <<shown, card>>
    PROVE  IInv'
<1>1. \A s : Going(s)' => Going(s)
  BY DEF Going
<1>2. \A s : Applied(s)' <=> Applied(s)
  BY DEF Applied
<1>3. Shape'
  BY DEF IInv, Shape
<1>4. PostsAreSound'
  <2>1. ASSUME NEW r \in posts', r # q PROVE r \in posts /\ PostIsSound(r)'
    BY <1>1, <1>2, <2>1 DEF IInv, PostsAreSound, PostIsSound
  <2>2. PostIsSound(q)'
    <3>1. PostIsSound(p) /\ ~Applied(p.step)
      BY DEF IInv, PostsAreSound, PostIsSound
    <3>2. q.at = "back" /\ q.reply # "502" => ~Going(q.step)'
      <4> SUFFICES ASSUME q.at = "back", p \notin posts', NEW r \in posts', r.step = p.step
                   PROVE  r.at = "back"
        BY DEF Going
      <4>1. CASE r = q
        BY <4>1
      <4>2. CASE r # q
        BY <4>2, <2>1 DEF IInv, PostsAreSound
      <4> QED BY <4>1, <4>2
    <3> QED BY <1>2, <3>1, <3>2 DEF PostIsSound
  <2>3. ASSUME NEW r \in posts', NEW o \in posts', r.step = o.step, r.at # "back", o.at # "back"
        PROVE  r = o
    <3>1. CASE r # q /\ o # q
      BY <2>1, <2>3, <3>1 DEF IInv, PostsAreSound
    <3>2. \A x \in posts' : x # q /\ x.step = q.step /\ x.at # "back" => x = p
      BY <2>1 DEF IInv, PostsAreSound
    <3> QED BY <2>3, <3>1, <3>2
  <2>4. \A r \in posts' : r.step = p.step \/ r \in posts
    BY <2>1
  <2> QED BY <1>2, <2>1, <2>2, <2>3, <2>4 DEF IInv, PostsAreSound
<1>5. ReceiptsHold' /\ AppliesAreSound' /\ FixStands' /\ FixShows'
  BY <1>1, <1>2 DEF IInv, ReceiptsHold, ReceiptHolds, Uncertain, AppliesAreSound, ActedOnce,
         FixStands, FixShows, FixShowsInTerminal
<1> QED BY <1>3, <1>4, <1>5 DEF IInv

\* Posts are lost.
LEMMA LostKeeps ==
    ASSUME IInv, posts' \subseteq posts,
           UNCHANGED <<setup, dialect, ready, phase, wanted, grant, results, applied, desktop>>,
           UNCHANGED <<shown, card>>
    PROVE  IInv'
<1>1. \A s : Going(s)' => Going(s)
  BY DEF Going
<1>2. \A s : Applied(s)' <=> Applied(s)
  BY DEF Applied
<1>3. Shape'
  BY DEF IInv, Shape
<1>4. PostsAreSound'
  BY <1>1, <1>2 DEF IInv, PostsAreSound, PostIsSound
<1>5. ReceiptsHold' /\ AppliesAreSound' /\ FixStands' /\ FixShows'
  BY <1>1, <1>2 DEF IInv, ReceiptsHold, ReceiptHolds, Uncertain, AppliesAreSound, ActedOnce,
         FixStands, FixShows, FixShowsInTerminal
<1> QED BY <1>3, <1>4, <1>5 DEF IInv

\* The desktop carries the action out.
LEMMA ApplyKeeps ==
    ASSUME IInv, NEW p \in posts, p.at = "bridge", wanted[p.step] \in Known, BridgeHandles(p)
    PROVE  IInv'
<1>1. PICK q \in Posts : /\ q.step = p.step /\ q.grant = p.grant
                         /\ q.at = "back" /\ q.reply = "ok"
                         /\ posts' = (posts \ {p}) \cup {q}
  <2> DEFINE q == [p EXCEPT !.at = "back", !.reply = "ok"]
  <2>1. p \in Posts
    BY Facts DEF IInv
  <2>2. q \in Posts /\ q.step = p.step /\ q.grant = p.grant /\ q.at = "back" /\ q.reply = "ok"
    BY <2>1 DEF Posts, Replies
  <2>3. posts' = (posts \ {p}) \cup {q}
    BY DEF BridgeHandles, Back, Replace
  <2> QED BY <2>2, <2>3
<1>2. /\ desktop' = ApplyInstruction(wanted[p.step], desktop)
      /\ applied' = Append(applied, [step |-> p.step, grant |-> p.grant])
      /\ UNCHANGED <<setup, dialect, ready, phase, wanted, grant, results, bridgeUp, shown, card>>
  BY DEF BridgeHandles, clientVars
<1>3. /\ PostIsSound(p) /\ ~Applied(p.step) /\ p.step \in 1..Len(wanted)
      /\ IsWhole(p.grant, p.step) /\ p \in Posts
  BY Facts DEF IInv, PostsAreSound, PostIsSound
<1>4. PICK e \in Applies : /\ e.step = p.step /\ e.grant = p.grant
                           /\ applied' = Append(applied, e)
  <2>1. [step |-> p.step, grant |-> p.grant] \in Applies
    BY <1>3 DEF Applies, Posts
  <2> QED BY <1>2, <2>1
<1>5. /\ applied' \in Seq(Applies) /\ Len(applied) \in Nat
      /\ DOMAIN applied' = 1..(Len(applied) + 1) /\ applied'[Len(applied) + 1] = e
      /\ \A i \in DOMAIN applied : i \in DOMAIN applied' /\ applied'[i] = applied[i]
      /\ \A i \in DOMAIN applied' : i \in DOMAIN applied \/ i = Len(applied) + 1
  <2>1. applied \in Seq(Applies)
    BY DEF IInv, Shape
  <2> QED BY <1>4, <2>1
<1>6. \A s : Applied(s)' <=> Applied(s) \/ s = p.step
  BY <1>4, <1>5 DEF Applied
<1>7. \A s : Going(s)' <=> Going(s) /\ s # p.step
  BY <1>1 DEF Going, IInv, PostsAreSound
<1>8. Shape'
  <2>1. desktop' \in Desktops
    BY <1>2 DEF IInv, Shape, Desktops, ApplyInstruction, Known
  <2>2. posts' \subseteq Posts
    BY <1>1 DEF IInv, Shape
  <2> QED BY <1>2, <1>5, <2>1, <2>2 DEF IInv, Shape
<1>9. PostsAreSound'
  <2>1. PostIsSound(q)'
    BY <1>1, <1>2, <1>3, <1>6, <1>7 DEF PostIsSound, Refusals
  <2>2. ASSUME NEW r \in posts, r # p PROVE PostIsSound(r)'
    <3>1. PostIsSound(r) /\ (r.at # "back" => r.step # p.step)
      BY <2>2 DEF IInv, PostsAreSound
    <3>2. r.at = "back" /\ r.step = p.step => r.reply = "502"
      BY <3>1 DEF PostIsSound, Going
    <3> QED BY <1>2, <1>6, <1>7, <3>1, <3>2 DEF PostIsSound, Refusals
  <2>3. \A r \in posts' : r = q \/ (r \in posts /\ r # p)
    BY <1>1
  <2>4. \A r, o \in posts' : r.step = o.step /\ r.at # "back" /\ o.at # "back" => r = o
    BY <1>1, <2>3 DEF IInv, PostsAreSound
  <2>5. phase \in {"authority", "discover ait", "discover aillium"} => p.step # Len(wanted)
    BY DEF IInv, PostsAreSound
  <2> QED BY <1>1, <1>2, <1>6, <2>1, <2>2, <2>3, <2>4, <2>5 DEF IInv, PostsAreSound
<1>10. ReceiptsHold'
  <2> SUFFICES ASSUME NEW s \in DOMAIN results PROVE ReceiptHolds(s)'
    BY <1>2 DEF ReceiptsHold
  <2>1. ReceiptHolds(s)
    BY DEF IInv, ReceiptsHold
  <2>2. Going(p.step)
    BY <1>1 DEF Going
  <2>3. s = p.step => Uncertain(s)
    BY <2>1, <2>2 DEF ReceiptHolds
  <2> QED BY <1>2, <1>6, <1>7, <2>1, <2>3 DEF ReceiptHolds, Uncertain, Refusals
<1>11. AppliesAreSound'
  <2>1. \A i \in DOMAIN applied' :
           applied'[i].step \in 1..Len(wanted) /\ IsWhole(applied'[i].grant, applied'[i].step)
    BY <1>3, <1>4, <1>5 DEF IInv, AppliesAreSound
  <2>2. \A i \in DOMAIN applied : applied[i].step # p.step
    BY <1>3 DEF Applied
  <2>3. \A i, j \in DOMAIN applied' : applied'[i].step = applied'[j].step => i = j
    BY <1>4, <1>5, <2>2 DEF IInv, AppliesAreSound, ActedOnce
  <2> QED BY <1>2, <2>1, <2>3 DEF AppliesAreSound, ActedOnce
<1>12. FixStands'
  <2> DEFINE s == Len(wanted)
  <2> SUFFICES ASSUME s > 0, Applied(s)', wanted[s] = "wifi on",
                      \A r \in 1..(s - 1) : ~Uncertain(r)
               PROVE  desktop'.wifi = "on"
    BY <1>2 DEF FixStands, Uncertain
  <2>1. CASE p.step = s
    <3>1. desktop \in Desktops
      BY DEF IInv, Shape
    <3> QED BY <1>2, <2>1, <3>1 DEF ApplyInstruction, Desktops
  <2>2. CASE p.step # s
    <3>1. p.step \in 1..(s - 1)
      BY <1>3, <2>2, Counting, Lengths DEF IInv
    <3>2. p.step \in DOMAIN results
      <4>1. s \in Nat /\ Len(results) \in Nat /\ s <= Len(results) + 1
        BY Lengths DEF IInv
      <4>2. p.step \in 1..Len(results)
        BY <3>1, <4>1, Counting
      <4> QED BY <4>2, Domains DEF IInv
    <3>3. ReceiptHolds(p.step) /\ Going(p.step)
      BY <1>1, <3>2 DEF IInv, ReceiptsHold, Going
    <3> QED BY <3>1, <3>3 DEF ReceiptHolds
  <2> QED BY <2>1, <2>2
<1>13. FixShows'
  BY <1>2 DEF IInv, FixShows, FixShowsInTerminal, Uncertain
<1> QED BY <1>8, <1>9, <1>10, <1>11, <1>12, <1>13 DEF IInv

-----------------------------------------------------------------------------
(***************************************************************************)
(* The actions.                                                            *)
(***************************************************************************)
LEMMA GrantFacts ==
    ASSUME Shape, NEW shape \in {"whole", "partial", "mismatched"}
    PROVE  /\ Granted(shape) \in Grants /\ Follows(grant, Granted(shape))
           /\ Granted(shape).step = Len(wanted) /\ Granted(shape).shape = shape
<1>1. PICK f \in Nat : f = grant.fence
  BY Facts
<1>2. PICK n \in Nat : n = Len(wanted)
  BY Lengths
<1>3. Granted(shape) = [step |-> n, shape |-> shape, fence |-> f + 1]
  BY <1>1, <1>2 DEF Granted, Step
<1>4. \A k \in Nat : k <= f => k <= f + 1
  OBVIOUS
<1> QED BY <1>1, <1>2, <1>3, <1>4 DEF Grants, Follows

LEMMA Repeats == Follows(grant, grant)
  BY DEF Follows

\* What happens beside the actions.
LEMMA BesideKeeps ==
    ASSUME IInv, Capabilities \/ BridgeGoes \/ Probe
                 \/ \E path \in {"ait", "aillium"} : ProbeAnswered(path)
    PROVE  IInv'
<1>1. /\ grant \in Grants /\ dialect \in Paths /\ setup \in Setups /\ setup.pinned \in Paths
      /\ phase \in Phases /\ ready \in {"unknown", "ready", "not ready"} /\ card \in Cards
      /\ phase \in {"discover ait", "discover aillium"} => IsWhole(grant, Len(wanted))
  BY BridgeAssumption DEF IInv, Shape, PostsAreSound, Paths
<1>2. CASE Capabilities
  <2>1. dialect' \in Paths /\ ready' \in {"unknown", "ready", "not ready"}
    BY <1>1, <1>2 DEF Capabilities, Tried, Paths
  <2>2. UNCHANGED <<setup, posts, wanted, results, applied, desktop, shown, phase, grant, card>>
    BY <1>2 DEF Capabilities, desktopVars
  <2> QED BY <1>1, <2>1, <2>2, WaitKeeps, Repeats
<1>3. CASE BridgeGoes
  BY <1>1, <1>3, WaitKeeps, Repeats DEF BridgeGoes, clientVars
<1>4. CASE Probe \/ \E path \in {"ait", "aillium"} : ProbeAnswered(path)
  <2>1. card' \in Cards
    <3>1. ASSUME NEW state \in {"unconfigured", "configured", "live"}, CardShows(state)
          PROVE  card' \in Cards
      BY <3>1 DEF CardShows, Cards
    <3>2. ASSUME NEW path \in Paths, card' = [card EXCEPT !.phase = path]
          PROVE  card' \in Cards
      BY <1>1, <3>2 DEF Cards
    <3>3. CASE Probe
      <4>1. \/ CardShows("unconfigured")
            \/ \E path \in Paths : card' = [card EXCEPT !.phase = path]
        BY <1>1, <3>3 DEF Probe, Paths
      <4> QED BY <3>1, <3>2, <4>1
    <3>4. CASE \E path \in {"ait", "aillium"} : ProbeAnswered(path)
      <4>1. \/ CardShows("live") \/ CardShows("configured")
            \/ card' = [card EXCEPT !.phase = "aillium"]
        BY <3>4 DEF ProbeAnswered
      <4>2. "aillium" \in Paths
        BY DEF Paths
      <4> QED BY <3>1, <3>2, <4>1, <4>2
    <3> QED BY <1>4, <3>3, <3>4
  <2>2. UNCHANGED <<setup, clientVars, desktopVars, shown>>
    BY <1>4 DEF Probe, ProbeAnswered
  <2> QED BY <1>1, <2>1, <2>2, WaitKeeps, Repeats DEF clientVars, desktopVars
<1> QED BY <1>2, <1>3, <1>4

LEMMA ReadKeeps ==
    ASSUME IInv, ReadTerminal
    PROVE  IInv'
<1>1. /\ phase = "idle"
      /\ shown'.after = Len(wanted) /\ shown'.wifi \in {"unread", "on", "off"}
      /\ shown'.wifi = "unread" \/ shown'.wifi = desktop.wifi
      /\ shown' \in [after: Nat, wifi: {"unread", "on", "off"}]
      /\ UNCHANGED <<setup, clientVars, desktopVars, card>>
  <2>1. Len(wanted) \in Nat /\ desktop.wifi \in {"on", "off"}
    BY Lengths DEF IInv, Shape, Desktops
  <2> QED BY <2>1 DEF ReadTerminal, Step
<1>2. UNCHANGED <<dialect, ready, phase, wanted, grant, results, posts, desktop, applied>>
  BY <1>1 DEF clientVars, desktopVars
<1>3. Len(wanted) = Len(results) /\ Len(results) \in Nat
  BY <1>1, Lengths DEF IInv
<1>4. Shape'
  BY <1>1, <1>2 DEF IInv, Shape
<1>5. PostsAreSound' /\ ReceiptsHold' /\ AppliesAreSound' /\ FixStands'
  <2>1. PostsAreSound'
    <3>1. \A s : (Applied(s)' <=> Applied(s)) /\ (Going(s)' <=> Going(s))
      BY <1>2 DEF Applied, Going
    <3> QED BY <1>2, <3>1 DEF IInv, PostsAreSound, PostIsSound
  <2>2. ReceiptsHold'
    BY <1>2 DEF IInv, ReceiptsHold, ReceiptHolds, Applied, Going, Uncertain
  <2>3. AppliesAreSound' /\ FixStands'
    BY <1>2 DEF IInv, AppliesAreSound, ActedOnce, FixStands, Applied, Uncertain
  <2> QED BY <2>1, <2>2, <2>3
<1>6. FixShows'
  <2>1. Len(results) <= Len(results)
    BY <1>3
  <2>2. ASSUME Len(wanted) > 0, results[Len(wanted)].code = "ok"
        PROVE  Applied(Len(wanted))
    <3>1. Len(wanted) \in DOMAIN results
      BY <1>3, <2>2, Domains DEF IInv
    <3> QED BY <2>2, <3>1 DEF IInv, ReceiptsHold, ReceiptHolds
  <2> QED BY <1>1, <1>2, <1>3, <2>1, <2>2
       DEF IInv, FixStands, FixShows, FixShowsInTerminal, Uncertain
<1> QED BY <1>4, <1>5, <1>6 DEF IInv

LEMMA RequestKeeps ==
    ASSUME IInv, NEW instruction \in Instructions, RequestAction(instruction)
    PROVE  IInv'
<1>1. /\ phase = "idle" /\ wanted' = Append(wanted, instruction)
      /\ UNCHANGED <<setup, dialect, ready, grant, posts, desktop, applied, shown, card>>
  BY DEF RequestAction, desktopVars
<1>2. PICK e \in Receipts : /\ e.code = "NO_BACKEND" /\ e.posted = FALSE
                            /\ \/ phase' = "authority" /\ results' = results
                               \/ phase' = "idle" /\ results' = Append(results, e)
  <2>1. [code |-> "NO_BACKEND", posted |-> FALSE] \in Receipts
    BY DEF Receipts, Codes
  <2> QED BY <2>1 DEF RequestAction, Settle
<1>3. PICK n \in Nat : n = Len(wanted) /\ n = Len(results)
  BY <1>1, Lengths DEF IInv
<1>4. /\ wanted' \in Seq(Instructions) /\ Len(wanted') = n + 1
      /\ \A s \in 1..n : wanted'[s] = wanted[s]
  <2>1. wanted \in Seq(Instructions)
    BY DEF IInv, Shape
  <2>2. /\ Append(wanted, instruction) \in Seq(Instructions)
        /\ Len(Append(wanted, instruction)) = Len(wanted) + 1
        /\ \A s \in 1..Len(wanted) : Append(wanted, instruction)[s] = wanted[s]
    BY <2>1
  <2> QED BY <1>1, <1>3, <2>2
<1>5. /\ results' \in Seq(Receipts)
      /\ \A s \in 1..n : results'[s] = results[s]
      /\ \/ phase' = "authority" /\ Len(results') = n /\ DOMAIN results' = 1..n
         \/ phase' = "idle" /\ Len(results') = n + 1 /\ DOMAIN results' = 1..(n + 1)
              /\ results'[n + 1] = e
  <2>1. results \in Seq(Receipts)
    BY DEF IInv, Shape
  <2>2. DOMAIN results = 1..n
    BY <1>3, Domains DEF IInv
  <2>3. CASE results' = results
    BY <1>2, <1>3, <2>1, <2>2, <2>3
  <2>4. CASE phase' = "idle" /\ results' = Append(results, e)
    BY <1>3, <2>1, <2>4
  <2> QED BY <1>2, <1>3, <2>1, <2>2, <2>4
<1>6. /\ \A s \in 1..n : s \in 1..(n + 1) /\ s # n + 1
      /\ \A s \in 1..(n + 1) : s \in 1..n \/ s = n + 1
      /\ (n + 1) - 1 = n
      /\ n <= n + 1 /\ ~(n + 1 <= n)
  OBVIOUS
<1>7. \A s : (Applied(s)' <=> Applied(s)) /\ (Going(s)' <=> Going(s))
  BY <1>1 DEF Applied, Going
<1>8. ~Applied(n + 1) /\ ~Going(n + 1) /\ \A p \in posts : p.step \in 1..n
  BY <1>3, <1>6 DEF IInv, AppliesAreSound, PostsAreSound, PostIsSound, Applied, Going
<1>9. Shape'
  <2>1. Len(wanted') = Len(results') + (IF phase' = "idle" THEN 0 ELSE 1)
    BY <1>4, <1>5
  <2> QED BY <1>1, <1>2, <1>4, <1>5, <2>1 DEF IInv, Shape, Phases
<1>10. PostsAreSound'
  <2>1. ASSUME NEW p \in posts PROVE PostIsSound(p)'
    BY <1>1, <1>3, <1>4, <1>6, <1>7, <1>8 DEF IInv, PostsAreSound, PostIsSound
  <2> QED BY <1>1, <1>2, <1>4, <1>6, <1>7, <1>8, <2>1 DEF IInv, PostsAreSound
<1>11. ReceiptsHold'
  <2> SUFFICES ASSUME NEW s \in DOMAIN results' PROVE ReceiptHolds(s)'
    BY DEF ReceiptsHold
  <2>1. CASE s \in 1..n
    <3>1. ReceiptHolds(s) /\ results'[s] = results[s]
      BY <1>3, <1>5, <2>1, Domains DEF IInv, ReceiptsHold
    <3> QED BY <1>7, <3>1 DEF ReceiptHolds, Uncertain
  <2>2. CASE s = n + 1 /\ results'[s] = e
    BY <1>2, <1>7, <1>8, <2>2 DEF ReceiptHolds
  <2> QED BY <1>5, <1>6, <2>1, <2>2
<1>12. AppliesAreSound'
  BY <1>1, <1>3, <1>4, <1>6 DEF IInv, AppliesAreSound, ActedOnce
<1>13. FixStands'
  BY <1>4, <1>7, <1>8 DEF FixStands
<1>14. FixShows'
  <2>1. PICK a \in Nat : a = shown.after /\ a <= n
    BY <1>3 DEF IInv, Shape, FixShows
  <2>2. a <= n + 1 /\ a # n + 1
    BY <2>1
  <2>3. CASE Len(results') = n + 1
    BY <1>1, <2>1, <2>2, <2>3 DEF FixShows, FixShowsInTerminal
  <2>4. CASE Len(results') = n /\ results' = results
    <3>1. a > 0 => wanted'[a] = wanted[a]
      BY <1>4, <2>1
    <3> QED BY <1>1, <1>3, <2>1, <2>4, <3>1 DEF IInv, FixShows, FixShowsInTerminal, Uncertain
  <2> QED BY <1>2, <1>5, <2>3, <2>4
<1> QED BY <1>9, <1>10, <1>11, <1>12, <1>13, <1>14 DEF IInv

\* Before an action is posted nothing of it is on its way.
LEMMA NothingPosted ==
    ASSUME IInv, phase \in {"authority", "discover ait", "discover aillium"}
    PROVE  ~Applied(Len(wanted)) /\ ~Going(Len(wanted)) /\ phase # "idle"
  BY DEF IInv, PostsAreSound, Going

LEMMA AuthorityKeeps ==
    ASSUME IInv, Refused \/ Authorised
    PROVE  IInv'
<1>1. /\ phase = "authority" /\ grant \in Grants /\ dialect \in Paths /\ phase # "idle"
      /\ ~Applied(Len(wanted)) /\ ~Going(Len(wanted))
      /\ ready \in {"unknown", "ready", "not ready"} /\ card \in Cards
  BY NothingPosted DEF IInv, Shape, Refused, Authorised
<1>2. CASE Refused
  <2>1. /\ phase' = "idle" /\ results' = Append(results, [code |-> "NO_GRANT", posted |-> FALSE])
        /\ UNCHANGED <<setup, dialect, ready, wanted, grant, posts, applied, desktop, shown, card>>
    BY <1>2 DEF Refused, Settle, desktopVars
  <2>2. "NO_GRANT" \in Codes /\ FALSE \in BOOLEAN /\ "NO_GRANT" # "ok"
    BY DEF Codes
  <2> QED BY <1>1, <2>1, <2>2, SettleKeeps, Repeats
<1>3. CASE Authorised
  <2>1. PICK shape \in {"whole", "partial", "mismatched"} :
           /\ grant' = Granted(shape)
           /\ IF ~Validates(grant')
              THEN Settle("INVALID_AUTHORITY", FALSE) /\ UNCHANGED posts
              ELSE IF dialect = "unknown"
                   THEN phase' = "discover ait" /\ UNCHANGED <<results, posts>>
                   ELSE Post(dialect) /\ UNCHANGED results
    BY <1>3 DEF Authorised, Shapes
  <2>2. UNCHANGED <<setup, dialect, ready, wanted, applied, desktop, shown, card>>
    BY <1>3 DEF Authorised
  <2>3. /\ grant' \in Grants /\ Follows(grant, grant')
        /\ Validates(grant') => IsWhole(grant', Len(wanted))
    BY <2>1, GrantFacts DEF IInv, Validates, IsWhole
  <2>4. CASE ~Validates(grant')
    <3>1. /\ phase' = "idle" /\ UNCHANGED posts
          /\ results' = Append(results, [code |-> "INVALID_AUTHORITY", posted |-> FALSE])
      BY <2>1, <2>4 DEF Settle
    <3>2. "INVALID_AUTHORITY" \in Codes /\ FALSE \in BOOLEAN /\ "INVALID_AUTHORITY" # "ok"
      BY DEF Codes
    <3> QED BY <1>1, <2>2, <2>3, <3>1, <3>2, SettleKeeps
  <2>5. CASE Validates(grant') /\ dialect = "unknown"
    <3>1. phase' = "discover ait" /\ UNCHANGED <<results, posts>> /\ phase' \in Phases
      BY <2>1, <2>5 DEF Phases
    <3> QED BY <1>1, <2>2, <2>3, <2>5, <3>1, WaitKeeps
  <2>6. CASE Validates(grant') /\ dialect # "unknown"
    <3>1. /\ phase' = "invoked" /\ UNCHANGED results
          /\ posts' = posts \cup {[step |-> Len(wanted), grant |-> grant', path |-> dialect,
                                   at |-> "gateway", reply |-> "none"]}
      BY <2>1, <2>6 DEF Post, Step
    <3> QED BY <1>1, <2>2, <2>3, <2>6, <3>1, PostKeeps
  <2> QED BY <2>4, <2>5, <2>6
<1> QED BY <1>2, <1>3

LEMMA DiscoverKeeps ==
    ASSUME IInv, NEW path \in {"ait", "aillium"}, Discover(path)
    PROVE  IInv'
<1>1. /\ phase \in {"discover ait", "discover aillium"} /\ UNCHANGED grant
      /\ UNCHANGED <<setup, ready, wanted, applied, desktop, shown, card>>
  BY DEF Discover, Discovering
<1>2. /\ grant \in Grants /\ dialect \in Paths /\ phase # "idle" /\ path \in Paths
      /\ ~Applied(Len(wanted)) /\ ~Going(Len(wanted)) /\ IsWhole(grant, Len(wanted))
      /\ ready \in {"unknown", "ready", "not ready"} /\ card \in Cards
  BY <1>1, NothingPosted DEF IInv, Shape, PostsAreSound, Paths
<1>3. Follows(grant, grant')
  BY <1>1, Repeats
<1>4. PICK answer \in {Reply(path), "TIMEOUT", "NETWORK_ERROR", "INVALID_RESPONSE"} :
        IF answer \in {"ready", "not ready"}
        THEN dialect' = path /\ Post(path) /\ UNCHANGED results
        ELSE /\ UNCHANGED <<dialect, posts>>
             /\ IF TriesNext(path, answer)
                THEN phase' = "discover aillium" /\ UNCHANGED results
                ELSE Settle(answer, FALSE)
  BY DEF Discover
<1>5. answer \in {"ready", "not ready"} \/ answer \in Codes \ {"ok"}
  BY DEF Reply, Codes, Refusals
<1>6. CASE answer \in {"ready", "not ready"}
  <2>1. /\ phase' = "invoked" /\ UNCHANGED results /\ dialect' \in Paths
        /\ posts' = posts \cup {[step |-> Len(wanted), grant |-> grant', path |-> path,
                                 at |-> "gateway", reply |-> "none"]}
    BY <1>2, <1>4, <1>6 DEF Post, Step
  <2>2. grant' \in Grants /\ IsWhole(grant', Len(wanted))
    BY <1>1, <1>2
  <2> QED BY <1>1, <1>2, <1>3, <2>1, <2>2, PostKeeps
<1>7. CASE answer \notin {"ready", "not ready"} /\ TriesNext(path, answer)
  <2>1. /\ phase' = "discover aillium" /\ phase' \in Phases
        /\ UNCHANGED <<results, dialect, posts, grant>>
    BY <1>1, <1>4, <1>7 DEF Phases
  <2> QED BY <1>1, <1>2, <1>3, <2>1, WaitKeeps
<1>8. CASE answer \notin {"ready", "not ready"} /\ ~TriesNext(path, answer)
  <2>1. /\ phase' = "idle" /\ UNCHANGED <<dialect, posts, grant>>
        /\ results' = Append(results, [code |-> answer, posted |-> FALSE])
    BY <1>1, <1>4, <1>8 DEF Settle
  <2>2. answer \in Codes /\ answer # "ok" /\ FALSE \in BOOLEAN
    BY <1>5, <1>8
  <2> QED BY <1>1, <1>2, <1>3, <2>1, <2>2, SettleKeeps
<1> QED BY <1>6, <1>7, <1>8

\* The client hears of the action, or gives up on it.
LEMMA AnswerKeeps ==
    ASSUME IInv, GivesUp \/ \E p \in posts : Answered(p)
    PROVE  IInv'
<1>1. /\ phase = "invoked" /\ phase # "idle" /\ phase' = "idle"
      /\ grant \in Grants /\ dialect \in Paths
      /\ UNCHANGED <<setup, dialect, ready, wanted, grant, applied, desktop, shown, card>>
  BY DEF IInv, Shape, GivesUp, Answered, Settle, desktopVars
<1>2. Follows(grant, grant') /\ TRUE \in BOOLEAN
  BY <1>1, Repeats
<1>3. CASE GivesUp
  <2>1. posts' = posts /\ results' = Append(results, [code |-> "TIMEOUT", posted |-> TRUE])
    BY <1>3 DEF GivesUp, Settle, desktopVars
  <2>2. "TIMEOUT" \in Codes /\ "TIMEOUT" \notin Refusals /\ "TIMEOUT" # "ok"
    BY DEF Codes, Refusals
  <2> QED BY <1>1, <1>2, <2>1, <2>2, SettleKeeps
<1>4. CASE \E p \in posts : Answered(p)
  <2>1. PICK p \in posts : Answered(p)
    BY <1>4
  <2>2. PICK c \in Codes : /\ results' = Append(results, [code |-> c, posted |-> TRUE])
                           /\ c = p.reply \/ c = "INVALID_RESPONSE"
    <3>1. PICK r \in Replies \ {"none"} : r = p.reply
      BY <2>1, Facts DEF IInv, PostsAreSound, PostIsSound, Posts, Answered
    <3>2. r \in Codes /\ "INVALID_RESPONSE" \in Codes
      BY DEF Replies, Codes, Refusals
    <3>3. (IF Completes(p.reply) THEN "ok" ELSE p.reply) = r
      BY <3>1 DEF Completes
    <3> QED BY <2>1, <3>1, <3>2, <3>3 DEF Answered, Settle
  <2>3. posts' \subseteq posts /\ p.at = "back" /\ p.step = Len(wanted) /\ PostIsSound(p)
    BY <2>1 DEF Answered, Step, IInv, PostsAreSound
  <2>4. /\ c = "ok" => Applied(Len(wanted))
        /\ c \in Refusals => ~Applied(Len(wanted))
        /\ c \notin {"TIMEOUT", "502", "INVALID_RESPONSE"} => ~Going(Len(wanted))
    BY <2>2, <2>3 DEF PostIsSound, Refusals
  <2> QED BY <1>1, <1>2, <2>2, <2>3, <2>4, SettleKeeps
<1> QED BY <1>3, <1>4

\* The gateway and the bridge.
LEMMA RemoteKeeps ==
    ASSUME IInv, NEW p \in posts, GatewayHandles(p) \/ BridgeHandles(p) \/ GatewayGivesUp(p)
    PROVE  IInv'
<1>1. p \in Posts
  BY Facts DEF IInv
<1>2. ASSUME NEW reply \in Refusals \cup {"502"}
      PROVE  /\ [p EXCEPT !.at = "back", !.reply = reply] \in Posts
             /\ [p EXCEPT !.at = "back", !.reply = reply].step = p.step
             /\ [p EXCEPT !.at = "back", !.reply = reply].grant = p.grant
             /\ [p EXCEPT !.at = "back", !.reply = reply].at = "back"
             /\ [p EXCEPT !.at = "back", !.reply = reply].reply = reply
             /\ reply \notin {"none", "ok"}
  BY <1>1, <1>2 DEF Posts, Replies, Refusals
<1>3. CASE BridgeHandles(p) /\ wanted[p.step] \in Known
  BY <1>3, ApplyKeeps DEF BridgeHandles
<1>4. ASSUME NEW reply \in Refusals \cup {"502"}, p.at # "back", Back(p, reply),
             UNCHANGED <<setup, clientVars, desktop, applied, shown, card>>
      PROVE  IInv'
  <2> DEFINE q == [p EXCEPT !.at = "back", !.reply = reply]
  <2>1. posts' = (posts \ {p}) \cup {q}
    BY <1>4 DEF Back, Replace
  <2>2. /\ q \in Posts /\ q.step = p.step /\ q.grant = p.grant /\ q.at = "back"
        /\ q.reply \notin {"none", "ok"}
    BY <1>2
  <2>3. p # q
    BY <1>4, <2>2
  <2> HIDE DEF q
  <2>4. posts' \subseteq posts \cup {q} /\ p \notin posts'
    BY <2>1, <2>3
  <2> QED BY <1>4, <2>2, <2>4, MoveKeeps DEF clientVars
<1>5. CASE BridgeHandles(p) /\ wanted[p.step] \notin Known
  <2>1. \E reply \in Refusals \cup {"502"} : Back(p, reply)
    BY <1>5 DEF BridgeHandles, Refusals
  <2>2. p.at # "back" /\ UNCHANGED <<setup, clientVars, desktop, applied, shown, card>>
    BY <1>5 DEF BridgeHandles
  <2> QED BY <1>4, <2>1, <2>2
<1>6. CASE GatewayHandles(p)
  <2>1. p.at # "back" /\ UNCHANGED <<setup, clientVars, desktop, applied, shown, card>>
    BY <1>6 DEF GatewayHandles
  <2>2. \/ \E reply \in Refusals \cup {"502"} : Back(p, reply)
        \/ Replace(p, [p EXCEPT !.at = "bridge"])
    <3>1. /\ p.path \notin setup.serves => Back(p, "404")
          /\ p.path \in setup.serves /\ ~setup.token => Back(p, "401")
          /\ p.path \in setup.serves /\ setup.token /\ p.grant.shape = "partial" =>
                Back(p, "403")
          /\ p.path \in setup.serves /\ setup.token /\ p.grant.shape # "partial" =>
                Back(p, "502") \/ Replace(p, [p EXCEPT !.at = "bridge"])
      BY <1>6 DEF GatewayHandles
    <3>2. {"404", "401", "403", "502"} \subseteq Refusals \cup {"502"}
      BY DEF Refusals
    <3> QED BY <3>1, <3>2
  <2>3. CASE Replace(p, [p EXCEPT !.at = "bridge"])
    <3> DEFINE q == [p EXCEPT !.at = "bridge"]
    <3>1. posts' = (posts \ {p}) \cup {q}
      BY <2>3 DEF Replace
    <3>2. q \in Posts /\ q.step = p.step /\ q.grant = p.grant /\ q.at = "bridge" /\ q # p
      BY <1>1, <1>6 DEF Posts, GatewayHandles
    <3> HIDE DEF q
    <3>3. posts' \subseteq posts \cup {q} /\ p \notin posts'
      BY <3>1, <3>2
    <3> QED BY <2>1, <3>2, <3>3, MoveKeeps DEF clientVars
  <2> QED BY <1>4, <2>1, <2>2, <2>3
<1>7. CASE GatewayGivesUp(p)
  <2> DEFINE q == [p EXCEPT !.at = "back", !.reply = "502"]
  <2>1. /\ q \in Posts /\ q.step = p.step /\ q.grant = p.grant /\ q.at = "back"
        /\ q.reply = "502" /\ q.reply \notin {"none", "ok"}
    BY <1>2
  <2>2. posts' = posts \cup {q} /\ p.at # "back"
    BY <1>7 DEF GatewayGivesUp
  <2> HIDE DEF q
  <2>3. UNCHANGED <<setup, clientVars, desktop, applied, shown, card>>
    BY <1>7 DEF GatewayGivesUp
  <2> QED BY <2>1, <2>2, <2>3, MoveKeeps DEF clientVars
<1> QED BY <1>3, <1>5, <1>6, <1>7

LEMMA InitHolds == Init => IInv
<1> SUFFICES ASSUME Init PROVE IInv
  OBVIOUS
<1>1. /\ wanted = <<>> /\ results = <<>> /\ applied = <<>> /\ posts = {} /\ phase = "idle"
      /\ DOMAIN results = {} /\ DOMAIN applied = {} /\ Len(wanted) = 0 /\ Len(results) = 0
      /\ shown.after = 0 /\ setup \in Setups
  BY DEF Init
<1>2. Shape
  <2>1. dialect \in Paths
    BY BridgeAssumption DEF Init, Paths
  <2>2. grant \in Grants /\ desktop \in Desktops /\ card \in Cards
    BY DEF Init, Grants, Desktops, Cards, Paths
  <2>3. shown \in [after: Nat, wifi: {"unread", "on", "off"}] /\ ready = "unknown"
    BY DEF Init
  <2>4. Len(wanted) = Len(results) + (IF phase = "idle" THEN 0 ELSE 1)
    BY <1>1
  <2>5. wanted \in Seq(Instructions) /\ results \in Seq(Receipts) /\ applied \in Seq(Applies)
    BY <1>1
  <2> QED BY <1>1, <2>1, <2>2, <2>3, <2>4, <2>5 DEF Shape, Phases
<1>3. PostsAreSound /\ ReceiptsHold /\ AppliesAreSound
  BY <1>1 DEF PostsAreSound, ReceiptsHold, AppliesAreSound, ActedOnce
<1>4. FixStands /\ FixShows
  BY <1>1 DEF FixStands, FixShows, FixShowsInTerminal
<1> QED BY <1>2, <1>3, <1>4 DEF IInv

LEMMA StepKeeps == IInv /\ [Next]_vars => IInv'
<1> SUFFICES ASSUME IInv, [Next]_vars PROVE IInv'
  OBVIOUS
<1>1. CASE UNCHANGED vars
  BY <1>1, LostKeeps DEF vars, clientVars, desktopVars
<1>2. CASE Lost
  BY <1>2, LostKeeps DEF Lost, clientVars
<1>3. CASE \E instruction \in Instructions : RequestAction(instruction)
  BY <1>3, RequestKeeps
<1>4. CASE \E p \in posts : GatewayHandles(p) \/ BridgeHandles(p) \/ GatewayGivesUp(p)
  BY <1>4, RemoteKeeps
<1>5. CASE Client
  BY <1>5, AuthorityKeeps, DiscoverKeeps, AnswerKeeps DEF Client
<1> QED BY <1>1, <1>2, <1>3, <1>4, <1>5, BesideKeeps, ReadKeeps, AnswerKeeps DEF Next

LEMMA Invariance == Spec => []IInv
  BY InitHolds, StepKeeps, PTL DEF Spec

-----------------------------------------------------------------------------
(***************************************************************************)
(* The state of the client, the session and the card is well formed, one   *)
(* action at a time is under way, and no post carries a fence that was not *)
(* given yet (control() of openclaw-session.ts).                           *)
(***************************************************************************)
THEOREM TypeCorrect == Spec => []TypeOK
<1>1. IInv => TypeOK
  <2> SUFFICES ASSUME IInv PROVE TypeOK
    OBVIOUS
  <2>1. \A p \in posts : p.step \in DOMAIN wanted /\ p.grant.fence <= grant.fence
    BY Domains DEF IInv, PostsAreSound, PostIsSound
  <2>2. card.state \in {"unknown", "unconfigured", "configured", "live"}
    BY DEF IInv, Shape, Cards
  <2> QED BY <2>1, <2>2 DEF IInv, Shape, TypeOK, Paths
<1> QED BY <1>1, Invariance, PTL

(***************************************************************************)
(* "An action is never replayed" (openclaw.ts): whatever is lost, late or  *)
(* given up on by the client or by the gateway, and whatever discovery     *)
(* makes of the path, a step reaches the desktop once at most.             *)
(***************************************************************************)
THEOREM NeverReplayed == Spec => []ActedOnce
<1>1. IInv => ActedOnce
  BY DEF IInv, AppliesAreSound
<1> QED BY <1>1, Invariance, PTL

(***************************************************************************)
(* What control() returned for a step is true of the desktop for good: a   *)
(* success was carried out, and what was refused, declined or never posted *)
(* was not and never will be.                                              *)
(***************************************************************************)
THEOREM ReceiptsAreTrue == Spec => []ReceiptIsTrue
<1>1. IInv => ReceiptIsTrue
  BY DEF IInv, ReceiptsHold, ReceiptHolds, ReceiptIsTrue, Refusals
<1> QED BY <1>1, Invariance, PTL

(***************************************************************************)
(* The desktop moves under nothing but the whole grant that control()      *)
(* asked for for the very step it carries out, however late it does.       *)
(***************************************************************************)
THEOREM EachUnderItsOwnGrant == Spec => []ActsUnderItsGrant
<1>1. IInv => ActsUnderItsGrant
  BY DEF IInv, AppliesAreSound, ActsUnderItsGrant, IsWhole
<1> QED BY <1>1, Invariance, PTL

(***************************************************************************)
(* The desktop and the terminal are one machine (bridge-device.ts): what a *)
(* step did is what the terminal reads after it, unless an earlier action  *)
(* was given up on and may yet be carried out.                             *)
(***************************************************************************)
THEOREM TerminalShowsTheFix == Spec => []FixShowsInTerminal
<1>1. IInv => FixShowsInTerminal
  BY DEF IInv, FixShows
<1> QED BY <1>1, Invariance, PTL

(***************************************************************************)
(* The Operations card turns live (probeOpenClawIntegration) in no step    *)
(* but one in which the bridge answers and the token is good.              *)
(***************************************************************************)
THEOREM LiveCardIsEarned == Spec => LiveIsEarned
<1>1. IInv /\ [Next]_vars => [card'.state = "live" /\ card.state # "live"
                                => bridgeUp /\ setup.token]_vars
  <2> SUFFICES ASSUME IInv, Next, card'.state = "live", card.state # "live"
               PROVE  bridgeUp /\ setup.token
    OBVIOUS
  <2>1. card \in Cards
    BY DEF IInv, Shape
  <2>2. card' # card
    OBVIOUS
  <2>3. Probe \/ \E path \in {"ait", "aillium"} : ProbeAnswered(path)
    BY <2>2 DEF Next, Capabilities, Client, Refused, Authorised, Discover, Answered, GivesUp,
       RequestAction, GatewayHandles, BridgeHandles, GatewayGivesUp, Lost, BridgeGoes,
       ReadTerminal
  <2>4. ~Probe
    BY <2>1 DEF Probe, CardShows, Cards
  <2>5. PICK path \in {"ait", "aillium"} : ProbeAnswered(path)
    BY <2>3, <2>4
  <2>6. PICK answer \in {Reply(path), "NETWORK_ERROR"} :
           IF setup.pinned = "unknown" /\ TriesNext(path, answer)
           THEN card' = [card EXCEPT !.phase = "aillium"]
           ELSE CardShows(IF Live(answer) THEN "live" ELSE "configured")
    BY <2>5 DEF ProbeAnswered
  <2>7. Live(answer)
    BY <2>1, <2>6 DEF CardShows, Cards
  <2>8. Reply(path) = "ready"
    BY <2>6, <2>7 DEF Live
  <2> QED BY <2>8 DEF Reply
<1> QED BY <1>1, Invariance, PTL DEF Spec, LiveIsEarned
=============================================================================
