--------------------------- MODULE MailboxReading ---------------------------
(***************************************************************************)
(* An inbox that is read page by page while it changes: the owner's pages  *)
(* (apps/web/src/mailbox-page.ts), whose signed cursor holds the position  *)
(* at the provider, and inbox() of packages/hypermail/src/client.ts, which *)
(* merges mailboxes and whose cursor holds a position in each.             *)
(*                                                                         *)
(* A mail is the number of its arrival: the provider lists a mailbox from  *)
(* the newest mail and every mail has its date, which is outside src/.     *)
(* A reader begins again, or goes on with any cursor he was given.         *)
(***************************************************************************)
EXTENDS Naturals, FiniteSets

CONSTANTS
    Accounts,
    Readings,      \* records [reader : {"page", "inbox"}, mailboxes : SUBSET Accounts]
    Window,        \* what inbox() asks of each mailbox
    PageLimits,    \* page sizes that readers ask for, at most Window
    MaxMail,       \* bound: mails that arrive
    MaxRemoved     \* bound: mails that leave the inbox

VARIABLES
    inbox,         \* what each mailbox holds
    arrived, removed,
    cursor,        \* the last cursor each reading was given
    told           \* history of each reading: what it was shown, what was there
                   \* when it began, and what happened since

vars == <<inbox, arrived, removed, cursor, told>>

NoCursor == [stage |-> "none", offsets |-> [m \in Accounts |-> 0]]
Untold == [shown |-> {}, twice |-> {}, there |-> {}, arrival |-> FALSE, removal |-> FALSE]
Held(mailboxes) == UNION {inbox[m] : m \in mailboxes}

Init ==
    /\ inbox = [m \in Accounts |-> {}]
    /\ arrived = 0 /\ removed = 0
    /\ cursor = [r \in Readings |-> NoCursor]
    /\ told = [r \in Readings |-> Untold]

-----------------------------------------------------------------------------
(* The provider *)

Arrive(m) ==
    /\ arrived < MaxMail
    /\ arrived' = arrived + 1
    /\ inbox' = [inbox EXCEPT ![m] = @ \cup {arrived + 1}]
    /\ told' = [r \in Readings |-> [told[r] EXCEPT !.arrival = @ \/ m \in r.mailboxes]]
    /\ UNCHANGED <<removed, cursor>>

Leave(m) ==
    /\ removed < MaxRemoved
    /\ removed' = removed + 1
    /\ \E mail \in inbox[m] : inbox' = [inbox EXCEPT ![m] = @ \ {mail}]
    /\ told' = [r \in Readings |-> [told[r] EXCEPT !.removal = @ \/ m \in r.mailboxes]]
    /\ UNCHANGED <<arrived, cursor>>

\* Where a mail is in the list of its mailbox.
Newer(m, mail) == Cardinality({x \in inbox[m] : x > mail})

\* list_emails: at most what was asked for; less is allowed, and is told.
Rest(m, skip) == {x \in inbox[m] : Newer(m, x) >= skip}
Listings(m, skip, limit) ==
    {[mails |-> {x \in Rest(m, skip) : Newer(m, x) < skip + n},
      hasMore |-> \E x \in Rest(m, skip) : Newer(m, x) >= skip + n] : n \in 0..limit}

-----------------------------------------------------------------------------
(* The readers *)

\* decode() and decodeCursor(): a cursor is only good for what it was made for.
Honoured(r, made) == made = r /\ cursor[made].stage = "more"

Offsets(made) == cursor[made].offsets

Unread(r) ==
    [shown |-> {}, twice |-> {}, there |-> Held(r.mailboxes), arrival |-> FALSE, removal |-> FALSE]

Show(r, fresh, mails) ==
    LET before == IF fresh THEN Unread(r) ELSE told[r]
    IN told' = [told EXCEPT ![r] =
           [shown |-> before.shown \cup mails,
            twice |-> before.twice \cup (before.shown \cap mails),
            there |-> before.there, arrival |-> before.arrival, removal |-> before.removal]]

\* page(): a page that is empty although there is more is refused.
Page(r, offsets, fresh, limit) ==
    \E m \in r.mailboxes : \E listing \in Listings(m, offsets[m], limit) :
        /\ ~(listing.hasMore /\ listing.mails = {})
        /\ Show(r, fresh, listing.mails)
        /\ cursor' = [cursor EXCEPT ![r] =
               [stage |-> IF listing.hasMore THEN "more" ELSE "end",
                offsets |-> [offsets EXCEPT ![m] = @ + Cardinality(listing.mails)]]]

\* inbox(): the newest of what the mailboxes list; each offset advances by what
\* is taken of its mailbox, and the rest of the window is asked for again.
Inbox(r, offsets, fresh, limit) ==
    \E pages \in [r.mailboxes -> UNION {Listings(m, offsets[m], Window) : m \in r.mailboxes}] :
        /\ \A m \in r.mailboxes : pages[m] \in Listings(m, offsets[m], Window)
        /\ LET all == UNION {pages[m].mails : m \in r.mailboxes}
               mails == {x \in all : Cardinality({y \in all : y > x}) < limit}
           IN /\ Show(r, fresh, mails)
              /\ cursor' = [cursor EXCEPT ![r] =
                     [stage |-> IF mails # all \/ \E m \in r.mailboxes : pages[m].hasMore
                                THEN "more" ELSE "end",
                      offsets |-> [m \in Accounts |->
                          IF m \in r.mailboxes
                          THEN offsets[m] + Cardinality(pages[m].mails \cap mails)
                          ELSE offsets[m]]]]

Read(r, offsets, fresh) ==
    /\ \E limit \in PageLimits :
          \/ r.reader = "page" /\ Page(r, offsets, fresh, limit)
          \/ r.reader = "inbox" /\ Inbox(r, offsets, fresh, limit)
    /\ UNCHANGED <<inbox, arrived, removed>>

Begin(r) == Read(r, NoCursor.offsets, TRUE)

GoOn(r) == \E made \in Readings : Honoured(r, made) /\ Read(r, Offsets(made), FALSE)

\* The cursor of a page is good for a quarter of an hour.
Expire(r) ==
    /\ r.reader = "page" /\ cursor[r].stage = "more"
    /\ cursor' = [cursor EXCEPT ![r] = NoCursor]
    /\ UNCHANGED <<inbox, arrived, removed, told>>

Next ==
    \/ \E m \in Accounts : Arrive(m) \/ Leave(m)
    \/ \E r \in Readings : Begin(r) \/ GoOn(r) \/ Expire(r)

Spec == Init /\ [][Next]_vars

-----------------------------------------------------------------------------
(* Properties *)

TypeOK ==
    /\ \A m \in Accounts : inbox[m] \subseteq 1..arrived
    /\ arrived \in 0..MaxMail /\ removed \in 0..MaxRemoved
    /\ \A r \in Readings : cursor[r].stage \in {"none", "more", "end"}

\* Who has read to the end has seen everything that was there when he began,
\* whatever arrived meanwhile, as long as nothing left the inbox before him.
NothingIsSkipped ==
    \A r \in Readings :
        cursor[r].stage = "end" /\ ~told[r].removal => told[r].there \subseteq told[r].shown

\* Nobody is shown a mail twice unless a newer one has moved it back.
NothingTwice ==
    \A r \in Readings : told[r].twice # {} => told[r].arrival
=============================================================================
