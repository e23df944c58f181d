--------------------------- MODULE MCAutomations -----------------------------
EXTENDS Automations

CONSTANTS a1, a2, h1

Setting(t, c, e) == [trigger |-> t, schedule |-> c, enabled |-> e]

\* A schedule beside a webhook (without one it is a channel that stays silent), a
\* schedule that cannot be read, none.
MCOffered == {Setting("both", "good", TRUE), Setting("cron", "bad", TRUE),
              Setting("webhook", "none", FALSE)}
=============================================================================
