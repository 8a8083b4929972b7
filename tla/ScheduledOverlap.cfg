CONSTANTS
    e1 = e1
    e2 = e2
    r1 = r1
    r2 = r2
    Mails <- TwoMails
    NewMails <- OneMail
    NoMail = NoMail
    Runs <- TwoRuns
    MaxFaults = 1
SPECIFICATION FairSpec
INVARIANTS TypeOK CopiesArePaidFor
PROPERTIES RefinesDelivery DueIsSettled
