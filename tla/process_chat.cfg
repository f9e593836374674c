SPECIFICATION FairSpec
CONSTANTS
    USER_LIMIT = 2
    MaxTalk <- Talk
    MaxBacklog = 2
INVARIANTS TypeOK NeverBlocked
PROPERTIES AnnouncementsSpec LastWordsHeard
CHECK_DEADLOCK FALSE
