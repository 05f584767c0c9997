SPECIFICATION FairSpec
CONSTANTS
    m1 = m1
    m2 = m2
    Mails = {m1, m2}
    Attachments <- MCAttachments
    External = {m2}
    ChanSize = 1
    Nothing = Nothing
    Empty = Empty
    MaxLogins = 2
    MaxRefreshes = 1
INVARIANTS TypeOK CallerCanResume FileCanResume FirstNilMeansSent AtMostOneRoute
PROPERTIES MailsEnd
