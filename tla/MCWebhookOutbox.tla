---------------------------- MODULE MCWebhookOutbox ----------------------------
EXTENDS WebhookOutbox, TLC

CONSTANTS web, worker, connect, other, w1, w2

\* One row of each of two partners.
MCPartnerOf == (w1 :> connect) @@ (w2 :> other)

Book(c, o) == (connect :> c) @@ (other :> o)
Both(b, c) == (web :> b) @@ (worker :> c)

\* Two processes deliver one partner's webhook, and a typo may hide that partner
\* from one of them; or one process delivers both partners' webhooks.
MCRegistries ==
  {Both(b, Book("none", "address")) :
     b \in {Book("none", "address"), Book("address", "unknown")}}
  \cup {Both(Book("none", "none"), Book("address", "address"))}
=============================================================================
