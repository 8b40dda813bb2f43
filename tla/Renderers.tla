------------------------------ MODULE Renderers ------------------------------
(***************************************************************************)
(* The two browser renderers, crates/scrapix-crawler/src/renderer_cdp.rs   *)
(* (Chrome over DevTools) and renderer_webdriver.rs.                       *)
(*                                                                         *)
(* Each has a semaphore of max_concurrent_pages or _sessions permits.  A   *)
(* call takes a permit, opens a tab of the browser or a session of the     *)
(* driver, works on it step by step and closes it; what remains of it is   *)
(* closed at no other place, so a call that returns early or is dropped    *)
(* gives its permit back but leaves its tab or session behind.  A          *)
(* screenshot over DevTools is a whole render and then a second tab with a *)
(* permit of its own; over WebDriver it is one more step of the session.   *)
(* What is on the pages is left out.                                       *)
(***************************************************************************)
EXTENDS Naturals, FiniteSets, Sequences

CONSTANTS RenderCalls,      \* concurrent callers
          Tabs,             \* permits of each renderer
          MaxRenderFaults,  \* bound: steps that fail and callers that give up
          NoRender

ASSUME RendererAssumption ==
  /\ IsFiniteSet(RenderCalls) /\ Tabs \in Nat \ {0} /\ MaxRenderFaults \in Nat

Drivers == {"cdp", "webdriver"}

\* What each operation of the browser renderer awaits, in order.
CdpRender ==
  <<"robots", "permit", "open", "setup", "goto", "wait", "readUrl", "content", "close">>

CdpShot == CdpRender \o <<"permit", "open", "setup", "wait", "screenshot", "close">>

CdpScript == <<"permit", "open", "setup", "wait", "evaluate", "close">>

CdpCookies == <<"permit", "open", "cookies", "close">>

\* And of the driver's.
OnPage(steps) == <<"permit", "open", "goto">> \o steps \o <<"close">>

DriverRender == <<"robots">> \o OnPage(<<"inject", "askUrl", "title", "content">>)

DriverShot == <<"robots">> \o OnPage(<<"inject", "askUrl", "title", "content", "screenshot">>)

DriverScript == OnPage(<<"evaluate">>)

DriverText == OnPage(<<"find", "text">>)

DriverAwait == OnPage(<<"appear">>)

DriverClick == OnPage(<<"find", "click", "content">>)

DriverFill == OnPage(<<"find", "type">>)

StepsOf ==
  [cdp |-> [render |-> CdpRender, shot |-> CdpShot, script |-> CdpScript, cookies |-> CdpCookies],
   webdriver |->
     [render |-> DriverRender, shot |-> DriverShot, script |-> DriverScript, text |-> DriverText,
      await |-> DriverAwait, click |-> DriverClick, fill |-> DriverFill]]

\* Steps whose failure the caller does not see.
Tolerated == {"inject", "askUrl", "title", "appear", "close"}

VARIABLES
  renders,      \* per caller: driver, operation, next step, permit and tab held
  abandoned,    \* per renderer: tabs or sessions that nobody will close
  renderFaults

renderVars == <<renders, abandoned, renderFaults>>

RendererInit ==
  /\ renders = [c \in RenderCalls |-> NoRender]
  /\ abandoned = [d \in Drivers |-> 0] /\ renderFaults = 0

OwnSteps(c) == StepsOf[renders[c].driver][renders[c].op]

Underway(c) == renders[c] # NoRender /\ renders[c].at <= Len(OwnSteps(c))

StepOf(c) == OwnSteps(c)[renders[c].at]

Calling(d) == {c \in RenderCalls : renders[c] # NoRender /\ renders[c].driver = d}

Holders(d) == {c \in Calling(d) : renders[c].permit}

StartRender(c, d, op) ==
  /\ renders[c] = NoRender
  /\ renders' = [renders EXCEPT ![c] =
       [driver |-> d, op |-> op, at |-> 1, permit |-> FALSE, tab |-> FALSE]]
  /\ UNCHANGED <<abandoned, renderFaults>>

\* A semaphore's permit goes to a caller when one is free; a function returns
\* its permit after it closed the tab, and the caller may go on to another.
Advanced_OnePermitMutant(c) ==
  [renders[c] EXCEPT
     !.at = @ + 1,
     !.tab = IF StepOf(c) = "open" THEN TRUE ELSE IF StepOf(c) = "close" THEN FALSE ELSE @,
     !.permit = IF StepOf(c) = "permit" THEN TRUE
                ELSE IF StepOf(c) = "close" /\ renders[c].at = Len(OwnSteps(c)) THEN FALSE ELSE @]

Advanced(c) ==
  [renders[c] EXCEPT
     !.at = @ + 1,
     !.tab = IF StepOf(c) = "open" THEN TRUE ELSE IF StepOf(c) = "close" THEN FALSE ELSE @,
     !.permit = IF StepOf(c) = "permit" THEN TRUE ELSE IF StepOf(c) = "close" THEN FALSE ELSE @]

TakeStep(c) ==
  /\ Underway(c)
  /\ StepOf(c) = "permit" => Cardinality(Holders(renders[c].driver)) < Tabs
  /\ renders' = [renders EXCEPT ![c] = Advanced(c)]
  /\ UNCHANGED <<abandoned, renderFaults>>

\* The tab or session is not closed although the call goes on or returns.
CloseFails(c) ==
  /\ Underway(c) /\ StepOf(c) = "close" /\ renderFaults < MaxRenderFaults
  /\ renders' = [renders EXCEPT ![c] = Advanced(c)]
  /\ abandoned' = [abandoned EXCEPT ![renders[c].driver] = @ + 1]
  /\ renderFaults' = renderFaults + 1

\* The page is disallowed: nothing was opened.
Disallowed(c) ==
  /\ Underway(c) /\ StepOf(c) = "robots"
  /\ renders' = [renders EXCEPT ![c] = NoRender]
  /\ UNCHANGED <<abandoned, renderFaults>>

\* `?` returns, or the caller's future is dropped: the permit goes back.
Abandon(c) ==
  /\ renderFaults < MaxRenderFaults /\ renderFaults' = renderFaults + 1
  /\ renders' = [renders EXCEPT ![c] = NoRender]
  /\ abandoned' = [abandoned EXCEPT ![renders[c].driver] = @ + (IF renders[c].tab THEN 1 ELSE 0)]

StepFails(c) == Underway(c) /\ StepOf(c) \notin Tolerated \cup {"permit"} /\ Abandon(c)

DropRender(c) == Underway(c) /\ Abandon(c)

EndRender(c) ==
  /\ renders[c] # NoRender /\ ~Underway(c)
  /\ renders' = [renders EXCEPT ![c] = NoRender]
  /\ UNCHANGED <<abandoned, renderFaults>>

RendererNext ==
  \E c \in RenderCalls :
    \/ \E d \in Drivers : \E op \in DOMAIN StepsOf[d] : StartRender(c, d, op)
    \/ TakeStep(c) \/ CloseFails(c) \/ Disallowed(c) \/ StepFails(c) \/ DropRender(c)
    \/ EndRender(c)

RendererSpec == RendererInit /\ [][RendererNext]_renderVars

-----------------------------------------------------------------------------
RendererTypeOK ==
  /\ renders \in [RenderCalls ->
       [driver : Drivers, op : UNION {DOMAIN StepsOf[d] : d \in Drivers}, at : Nat,
        permit : BOOLEAN, tab : BOOLEAN] \cup {NoRender}]
  /\ abandoned \in [Drivers -> Nat] /\ renderFaults \in 0..MaxRenderFaults

InUse(d) == {c \in Calling(d) : renders[c].tab}

\* However calls fail, are dropped and overlap, a browser has no more tabs, or a
\* driver sessions, than it has permits and faults that left one behind; and
\* callers that wait for a permit never wait for one another: one is free, or a
\* call that works on its tab holds it.  (render_with_screenshot takes a second
\* permit; every early return leaves the tab open.)
TabsAreBounded ==
  /\ \A d \in Drivers : Cardinality(InUse(d)) + abandoned[d] <= Tabs + renderFaults
  /\ \A c \in RenderCalls :
       Underway(c) /\ StepOf(c) = "permit" =>
         \/ Cardinality(Holders(renders[c].driver)) < Tabs
         \/ \E other \in Holders(renders[c].driver) : StepOf(other) # "permit"

=============================================================================
